---- MODULE Spec2Model ----
(***************************************************************************)
(* Garage-owner payment / verification state machine of the car-garage    *)
(* system: the User documents of src/unnamed/part_003 (garageInfo          *)
(* sub-document), the payment middleware of                                *)
(* src/middleware/payment.middleware.js (later version, lines 556-1614),   *)
(* the payment routes of src/routes/payment.routes.js (later version,      *)
(* lines 169-527), the admin routes of src/routes/auth.routes.js and       *)
(* registration / document upload of src/controllers/auth.controller.js.   *)
(*                                                                         *)
(* Every handler is a sequence of awaited steps.  A handler that loads a   *)
(* document, assigns fields and calls save() is modelled by a read step    *)
(* (named after the handler) that stores the loaded document in a request  *)
(* slot, and by the step userSave in which mongoose writes the modified    *)
(* paths, and by the step respond in which the response leaves the server. *)
(* A handler that returns early holds its response in the slot at once.    *)
(* Time is counted in seconds (the code uses milliseconds).                *)
(***************************************************************************)
EXTENDS Integers, Sequences, FiniteSets, TLC

(***************************************************************************)
(* Bounds of the model.                                                    *)
(***************************************************************************)
MaxTime == 1
MaxReviews == 2
MaxDocs == 1

\* documents attached at registration when the document handlers are explored
MaxRegDocs == 2

Accounts == {"u1"}
Slots == {"s1", "s2"}

\* the slots used when requests are served one at a time
OneAtATime == {"s1"}
Rands == {"R"}

(***************************************************************************)
(* Program constants.                                                      *)
(***************************************************************************)
Null == -1
ThirtyDays == 30 * 24 * 60 * 60
YearDays == 365 * 24 * 60 * 60
TimestampWrap == 100000000
BasicAmount == 500
PremiumAmount == 1000
YearlyAmount == 5000

NoRef == <<>>
UnknownRef == <<"zz", 0, "X">>

PaymentStatusEnum ==
    {"pending", "processing", "paid", "failed", "expired", "refunded",
     "cancelled", "not_required"}

VerificationStatusEnum ==
    {"pending", "documents_uploaded", "pending_payment", "under_review",
     "more_info_needed", "approved", "rejected", "suspended", "banned",
     "payment_completed"}

validPlans == {"basic", "premium", "yearly"}

\* garageOwnerInfoSchema has no path registrationProgress (and no
\* verificationProgress.paymentCompleted): strict mode drops them.
registrationProgressInSchema == FALSE

VARIABLES users, reqs, now, store

vars == <<users, reqs, now, store>>

\* the collections and fields the account handlers never write: the Garage,
\* Booking and Review collections and the users' login bookkeeping
garages == store.garages
bookings == store.bookings
reviews == store.reviews
attempts == store.attempts

otherData == store

GarageIds == {"g1"}
Customers == {"c1", "c2", "c3"}

\* a garage id no document was ever stored under, and one whose document was
\* deleted for good; ObjectIds are not reused
NoGarage == [state |-> "none"]
GoneGarage == [state |-> "gone"]

\* loginAttempts and lockUntil of a new user document
NoAttempts == [loginAttempts |-> 0, lockUntil |-> Null]

InitOtherData ==
    store = [garages |-> [g \in GarageIds |-> NoGarage],
             bookings |-> <<>>,
             reviews |-> <<>>,
             attempts |-> [a \in Accounts |-> NoAttempts]]

(***************************************************************************)
(* Documents.                                                              *)
(***************************************************************************)
Absent == [kind |-> "absent"]

\* a garage owner created by POST /auth/register: garageInfo is null
PlainOwner == [kind |-> "plain"]

Idle == [op |-> "idle", pc |-> "idle"]

\* a request with no account in its parameters or token
NoAcct == "none"

\* res.status(status).json({ success, message }) of the request op that named
\* account a and transaction reference ref
Response(op, a, ref, status, success, message) ==
    [op |-> op, pc |-> "respond", acct |-> a, ref |-> ref,
     status |-> status, success |-> success, message |-> message]

HasInfo(u) == u.kind = "garage"

\* the pending documents attached at creation
PendingDocs(n) == [i \in 1..n |-> "pending"]

\* a registration that starts in registration_started / documents_uploaded
NewGarageInfoStaged(ndocs) ==
    [kind |-> "garage",
     paymentStatus |-> "pending",
     paymentTxRef |-> NoRef,
     paymentAmount |-> Null,
     paymentDate |-> Null,
     paymentExpiry |-> Null,
     paymentPlan |-> "basic",
     verificationStatus |-> IF ndocs > 0 THEN "documents_uploaded" ELSE "registration_started",
     documentsSubmitted |-> (ndocs > 0),
     documentsVerified |-> FALSE,
     documents |-> PendingDocs(ndocs),
     subscriptionPlan |-> "free",
     subscriptionExpiry |-> Null,
     adminReviews |-> <<>>,
     approvalNumber |-> <<>>]

\* the garageInfo written by registerGarageOwner
NewGarageInfo(ndocs) ==
    [kind |-> "garage",
     paymentStatus |-> "pending",
     paymentTxRef |-> NoRef,
     paymentAmount |-> Null,
     paymentDate |-> Null,
     paymentExpiry |-> Null,
     paymentPlan |-> "basic",
     verificationStatus |-> "pending_payment",
     documentsSubmitted |-> (ndocs > 0),
     documentsVerified |-> FALSE,
     documents |-> PendingDocs(ndocs),
     subscriptionPlan |-> "free",
     subscriptionExpiry |-> Null,
     adminReviews |-> <<>>,
     approvalNumber |-> <<>>]

Init ==
    /\ users = [a \in Accounts |-> Absent]
    /\ reqs = [s \in Slots |-> Idle]
    /\ now = 0
    /\ InitOtherData

(***************************************************************************)
(* The clock.                                                              *)
(***************************************************************************)
Tick ==
    /\ UNCHANGED otherData
    /\ now < MaxTime
    /\ now' = now + 1
    /\ UNCHANGED <<users, reqs>>

(***************************************************************************)
(* Registration.                                                           *)
(***************************************************************************)
\* POST /auth/register-garage
registerGarageOwner(s, a, ndocs, agreement) ==
    /\ UNCHANGED otherData
    /\ reqs[s].pc = "idle"
    /\ UNCHANGED now
    /\ IF users[a] # Absent
       THEN /\ reqs' = [reqs EXCEPT ![s] =
                   Response("registerGarageOwner", a, NoRef, 400, FALSE, "Email already exists")]
            /\ UNCHANGED users
       ELSE IF ~agreement
       THEN /\ reqs' = [reqs EXCEPT ![s] =
                   Response("registerGarageOwner", a, NoRef, 400, FALSE, "Garage agreement is required")]
            /\ UNCHANGED users
       ELSE /\ users' = [users EXCEPT ![a] = NewGarageInfo(ndocs)]
            /\ reqs' = [reqs EXCEPT ![s] =
                   Response("registerGarageOwner", a, NoRef, 201, TRUE,
                            "Garage owner registered successfully. Please complete payment to proceed.")]

\* POST /auth/register with role garage_owner
register(s, a) ==
    /\ UNCHANGED otherData
    /\ reqs[s].pc = "idle"
    /\ UNCHANGED now
    /\ IF users[a] # Absent
       THEN /\ reqs' = [reqs EXCEPT ![s] =
                   Response("register", a, NoRef, 400, FALSE, "User already exists")]
            /\ UNCHANGED users
       ELSE /\ users' = [users EXCEPT ![a] = PlainOwner]
            /\ reqs' = [reqs EXCEPT ![s] =
                   Response("register", a, NoRef, 201, TRUE, "User registered successfully")]

(***************************************************************************)
(* Queries and mongoose save.                                              *)
(***************************************************************************)
\* User.findOne({ 'garageInfo.paymentTxRef': tx_ref })
FindByTxRef(ref) == {a \in DOMAIN users : HasInfo(users[a]) /\ users[a].paymentTxRef = ref}

ScalarPaths ==
    {"paymentStatus", "paymentTxRef", "paymentAmount", "paymentDate", "paymentExpiry",
     "paymentPlan", "verificationStatus", "documentsSubmitted", "documentsVerified",
     "subscriptionPlan",
     "subscriptionExpiry", "approvalNumber"}

\* the entries pushed onto an array since the document was loaded
Pushed(snapArr, docArr) == SubSeq(docArr, Len(snapArr) + 1, Len(docArr))

\* the array was changed by push() alone
OnlyPushed(snapArr, docArr) ==
    /\ Len(docArr) >= Len(snapArr)
    /\ SubSeq(docArr, 1, Len(snapArr)) = snapArr

\* document.save(): only the modified paths are written ($set), pushes are
\* appended ($push); the other paths keep what the store holds
SaveDoc(stored, snap, doc) ==
    [p \in DOMAIN stored |->
        IF p \in ScalarPaths
        THEN IF doc[p] # snap[p] THEN doc[p] ELSE stored[p]
        ELSE IF p \in {"adminReviews", "documents"}
        THEN IF OnlyPushed(snap[p], doc[p])
             THEN stored[p] \o Pushed(snap[p], doc[p])
             ELSE doc[p]
        ELSE stored[p]]

\* a positional $set or a $pull on an array carries the version the document was
\* loaded with: it is refused (VersionError) when the stored arrays have changed
VersionConflict(stored, snap, doc) ==
    \E p \in {"adminReviews", "documents"} :
        /\ ~OnlyPushed(snap[p], doc[p])
        /\ \E q \in {"adminReviews", "documents"} : stored[q] # snap[q]

\* schema validation run by save()
ValidDoc(doc) ==
    /\ doc.paymentStatus \in PaymentStatusEnum
    /\ doc.verificationStatus \in VerificationStatusEnum
    /\ doc.paymentPlan \in validPlans

\* a handler that has loaded snap, assigned doc and awaits save()
Request(op, a, snap, doc, ref) ==
    [op |-> op, pc |-> "save", acct |-> a, snap |-> snap, doc |-> doc, ref |-> ref]

(***************************************************************************)
(* Field assignments of the payment handlers.                              *)
(***************************************************************************)
\* updatePaymentStatus lines 1133-1150, verifyChapaPayment lines 916-929
PaymentSuccessful(d, t) ==
    [d EXCEPT !.paymentStatus = "paid",
              !.paymentDate = t,
              !.paymentExpiry = t + ThirtyDays,
              !.verificationStatus = "payment_completed",
              !.subscriptionPlan = IF d.paymentPlan = "yearly" THEN "premium" ELSE "basic",
              !.subscriptionExpiry = IF d.paymentPlan = "yearly"
                                     THEN t + YearDays ELSE t + ThirtyDays]

\* updatePaymentStatus lines 1202-1203, verifyChapaPayment lines 945-946
PaymentFailed(d) ==
    [d EXCEPT !.paymentStatus = "failed",
              !.verificationStatus = "pending_payment"]

\* forceUpdatePayment lines 1309-1313, debugWebhook lines 1442-1446
ForcePaid(d, t) ==
    [d EXCEPT !.paymentStatus = "paid",
              !.paymentDate = t,
              !.paymentExpiry = t + ThirtyDays,
              !.verificationStatus = "payment_completed"]

\* POST /force-update-user lines 389-396
ForceUserStatus(d, t, status) ==
    IF status = "paid" THEN ForcePaid(d, t) ELSE [d EXCEPT !.paymentStatus = status]

\* manualPaymentUpdate lines 1522-1534
ManualStatus(d, t, status) ==
    IF status = "paid"
    THEN [ForcePaid(d, t) EXCEPT
              !.subscriptionPlan = IF d.paymentPlan = "yearly" THEN "premium" ELSE @,
              !.subscriptionExpiry = IF d.paymentPlan = "yearly" THEN t + YearDays ELSE @]
    ELSE [d EXCEPT !.paymentStatus = status]

\* initializeChapaPayment lines 831-834
TransactionSaved(d, ref, plan, amount) ==
    [d EXCEPT !.paymentTxRef = ref,
              !.paymentStatus = "processing",
              !.paymentPlan = plan,
              !.paymentAmount = amount]

(***************************************************************************)
(* Payment webhook: POST /payments/callback.                               *)
(***************************************************************************)
\* the earlier version (lines 343-362): a request without signature is refused
verifyWebhookSignatureEarlier(sig) == IF sig = "missing" THEN "401" ELSE "next"

\* the signature is logged and never enforced
verifyWebhookSignature(sig) == "next"

successStatuses == {"success", "completed", "successful"}

WebhookStatuses == successStatuses \cup {"failed", "cancelled"}

\* what updatePaymentStatus assigns to the user it found, lines 1121-1227; any
\* status that is neither a success nor "failed" assigns nothing
webhookAssigns(d, t, status) ==
    IF status \in successStatuses THEN PaymentSuccessful(d, t)
    ELSE IF status = "failed" THEN PaymentFailed(d)
    ELSE d

Signatures == {"missing", "valid", "invalid"}

\* the earlier version (lines 371-436): 404 for an unknown reference, 500 on error
updatePaymentStatusEarlier(s, ref, status, sig, dbFail) ==
    /\ UNCHANGED otherData
    /\ reqs[s].pc = "idle"
    /\ UNCHANGED <<users, now>>
    /\ IF dbFail
       THEN reqs' = [reqs EXCEPT ![s] =
                Response("callback", NoAcct, ref, 500, FALSE, "Error updating payment status")]
       ELSE IF FindByTxRef(ref) = {}
       THEN reqs' = [reqs EXCEPT ![s] =
                Response("callback", NoAcct, ref, 404, FALSE, "User not found for this transaction")]
       ELSE \E a \in FindByTxRef(ref) :
              IF status \in {"success", "completed"}
              THEN reqs' = [reqs EXCEPT ![s] =
                       Request("callback", a, users[a], PaymentSuccessful(users[a], now), ref)]
              ELSE reqs' = [reqs EXCEPT ![s] =
                       Request("callback", a, users[a], PaymentFailed(users[a]), ref)]

updatePaymentStatus(s, ref, status, sig, dbFail) ==
    /\ UNCHANGED otherData
    /\ reqs[s].pc = "idle"
    /\ UNCHANGED <<users, now>>
    /\ IF verifyWebhookSignature(sig) # "next"
       THEN reqs' = [reqs EXCEPT ![s] =
                Response("callback", NoAcct, ref, 401, FALSE, "No signature provided")]
       ELSE IF ref = NoRef
       THEN reqs' = [reqs EXCEPT ![s] =
                Response("callback", NoAcct, ref, 200, FALSE, "Missing tx_ref")]
       ELSE IF dbFail
       THEN reqs' = [reqs EXCEPT ![s] =
                Response("callback", NoAcct, ref, 200, FALSE, "Error processing webhook")]
       ELSE IF FindByTxRef(ref) = {}
       THEN reqs' = [reqs EXCEPT ![s] =
                Response("callback", NoAcct, ref, 200, FALSE, "User not found for this transaction")]
       ELSE \E a \in FindByTxRef(ref) :
              IF status \in successStatuses \/ status = "failed"
              THEN reqs' = [reqs EXCEPT ![s] =
                       Request("callback", a, users[a],
                               webhookAssigns(users[a], now, status), ref)]
              ELSE reqs' = [reqs EXCEPT ![s] =
                       Response("callback", a, ref, 200, TRUE, "Unknown status received")]

(***************************************************************************)
(* Verify poll: GET /payments/verify/:tx_ref.                              *)
(***************************************************************************)
ProviderOutcomes == {"success", "failed", "pending", "error"}

\* what verifyChapaPayment assigns to the user it found, lines 909-948
verifyAssigns(d, t, outcome) ==
    IF outcome = "success" THEN PaymentSuccessful(d, t) ELSE PaymentFailed(d)

\* outcome is the status of the provider's answer; "error" is a call that throws
verifyChapaPayment(s, ref, outcome) ==
    /\ UNCHANGED otherData
    /\ reqs[s].pc = "idle"
    /\ \E caller \in DOMAIN users : users[caller] # Absent
    /\ UNCHANGED <<users, now>>
    /\ IF outcome = "error"
       THEN reqs' = [reqs EXCEPT ![s] =
                Response("verify", NoAcct, ref, 500, FALSE, "Error verifying payment")]
       ELSE IF FindByTxRef(ref) = {}
       THEN reqs' = [reqs EXCEPT ![s] =
                Response("verify", NoAcct, ref, 200, TRUE,
                         IF outcome = "success" THEN "verified" ELSE "not verified")]
       ELSE \E a \in FindByTxRef(ref) :
              reqs' = [reqs EXCEPT ![s] =
                  Request("verify", a, users[a], verifyAssigns(users[a], now, outcome), ref)]

(***************************************************************************)
(* Testing / emergency endpoints.                                          *)
(***************************************************************************)
\* POST /payments/debug-webhook (public)
debugWebhook(s, ref, status) ==
    /\ UNCHANGED otherData
    /\ reqs[s].pc = "idle"
    /\ UNCHANGED <<users, now>>
    /\ IF ref = NoRef
       THEN reqs' = [reqs EXCEPT ![s] =
                Response("debugWebhook", NoAcct, ref, 400, FALSE, "tx_ref is required")]
       ELSE IF FindByTxRef(ref) = {}
       THEN reqs' = [reqs EXCEPT ![s] =
                Response("debugWebhook", NoAcct, ref, 404, FALSE, "User not found for this tx_ref")]
       ELSE \E a \in FindByTxRef(ref) :
              IF status = "success"
              THEN reqs' = [reqs EXCEPT ![s] =
                       Request("debugWebhook", a, users[a], ForcePaid(users[a], now), ref)]
              ELSE reqs' = [reqs EXCEPT ![s] =
                       Response("debugWebhook", a, ref, 200, TRUE, "Debug webhook processed")]

\* POST /payments/force-update (public)
forceUpdatePayment(s, ref) ==
    /\ UNCHANGED otherData
    /\ reqs[s].pc = "idle"
    /\ UNCHANGED <<users, now>>
    /\ IF ref = NoRef
       THEN reqs' = [reqs EXCEPT ![s] =
                Response("forceUpdatePayment", NoAcct, ref, 400, FALSE, "tx_ref is required")]
       ELSE IF FindByTxRef(ref) = {}
       THEN reqs' = [reqs EXCEPT ![s] =
                Response("forceUpdatePayment", NoAcct, ref, 404, FALSE, "User not found for this tx_ref")]
       ELSE \E a \in FindByTxRef(ref) :
              reqs' = [reqs EXCEPT ![s] =
                  Request("forceUpdatePayment", a, users[a], ForcePaid(users[a], now), ref)]

\* POST /payments/force-update-user (the authenticated garage owner a)
forceUpdateUser(s, a, status) ==
    /\ UNCHANGED otherData
    /\ reqs[s].pc = "idle"
    /\ users[a] # Absent
    /\ UNCHANGED <<users, now>>
    /\ IF ~HasInfo(users[a])
       THEN reqs' = [reqs EXCEPT ![s] =
                Response("forceUpdateUser", a, NoRef, 500, FALSE, "Error force updating payment")]
       ELSE reqs' = [reqs EXCEPT ![s] =
                Request("forceUpdateUser", a, users[a], ForceUserStatus(users[a], now, status), NoRef)]

manualValidStatuses == {"pending", "processing", "paid", "failed", "expired", "cancelled"}

\* POST /payments/manual-update (admin)
manualPaymentUpdate(s, a, status) ==
    /\ UNCHANGED otherData
    /\ reqs[s].pc = "idle"
    /\ UNCHANGED <<users, now>>
    /\ IF users[a] = Absent
       THEN reqs' = [reqs EXCEPT ![s] =
                Response("manualPaymentUpdate", a, NoRef, 404, FALSE, "User not found")]
       ELSE IF ~HasInfo(users[a])
       THEN reqs' = [reqs EXCEPT ![s] =
                Response("manualPaymentUpdate", a, NoRef, 500, FALSE, "Error updating payment status")]
       ELSE IF status \notin manualValidStatuses
       THEN reqs' = [reqs EXCEPT ![s] =
                Response("manualPaymentUpdate", a, NoRef, 400, FALSE, "Invalid status")]
       ELSE reqs' = [reqs EXCEPT ![s] =
                Request("manualPaymentUpdate", a, users[a], ManualStatus(users[a], now, status), NoRef)]

(***************************************************************************)
(* Payment initiate: POST /payments/initialize.                            *)
(***************************************************************************)
eligibleStatuses == {"pending", "failed", "expired"}

eligibleVerificationStatuses ==
    {"documents_uploaded", "pending_payment", "more_info_needed", "registration_started"}

\* generateTxRef: GAR-<user id suffix>-<last 8 digits of Date.now()>-<random>
generateTxRef(a, t, rnd) == <<a, t % TimestampWrap, rnd>>

\* getPaymentAmount
PlanAmount(plan) ==
    IF plan = "premium" THEN PremiumAmount
    ELSE IF plan = "yearly" THEN YearlyAmount
    ELSE BasicAmount

\* the eligibility check without its verification-status part
checkPaymentEligibilityByPayment(s, a, plan, rnd) ==
    /\ UNCHANGED otherData
    /\ reqs[s].pc = "idle"
    /\ users[a] # Absent
    /\ UNCHANGED <<users, now>>
    /\ IF plan \notin validPlans
       THEN reqs' = [reqs EXCEPT ![s] =
                Response("initialize", a, NoRef, 400, FALSE,
                         "Invalid payment plan. Choose basic, premium, or yearly")]
       ELSE IF ~HasInfo(users[a])
       THEN reqs' = [reqs EXCEPT ![s] =
                Response("initialize", a, NoRef, 400, FALSE,
                         "Please complete your garage registration first")]
       ELSE IF users[a].paymentStatus \notin eligibleStatuses
       THEN reqs' = [reqs EXCEPT ![s] =
                Response("initialize", a, NoRef, 400, FALSE, "Payment not allowed at this stage")]
       ELSE reqs' = [reqs EXCEPT ![s] =
                [op |-> "initialize", pc |-> "chapa", acct |-> a, plan |-> plan,
                 ref |-> generateTxRef(a, now, rnd)]]

\* the eligibility check that admits no retry after a failure
checkPaymentEligibilityNoRetry(s, a, plan, rnd) ==
    /\ UNCHANGED otherData
    /\ reqs[s].pc = "idle"
    /\ users[a] # Absent
    /\ UNCHANGED <<users, now>>
    /\ IF plan \notin validPlans
       THEN reqs' = [reqs EXCEPT ![s] =
                Response("initialize", a, NoRef, 400, FALSE,
                         "Invalid payment plan. Choose basic, premium, or yearly")]
       ELSE IF ~HasInfo(users[a])
       THEN reqs' = [reqs EXCEPT ![s] =
                Response("initialize", a, NoRef, 400, FALSE,
                         "Please complete your garage registration first")]
       ELSE IF users[a].paymentStatus \notin {"pending", "expired"}
       THEN reqs' = [reqs EXCEPT ![s] =
                Response("initialize", a, NoRef, 400, FALSE, "Payment not allowed at this stage")]
       ELSE IF users[a].verificationStatus \notin eligibleVerificationStatuses
       THEN reqs' = [reqs EXCEPT ![s] =
                Response("initialize", a, NoRef, 400, FALSE, "Cannot process payment when status is")]
       ELSE reqs' = [reqs EXCEPT ![s] =
                [op |-> "initialize", pc |-> "chapa", acct |-> a, plan |-> plan,
                 ref |-> generateTxRef(a, now, rnd)]]

\* validatePayment, checkPaymentEligibility, generateTxRef, getPaymentAmount and
\* the call of the provider's initialize endpoint
checkPaymentEligibility(s, a, plan, rnd) ==
    /\ UNCHANGED otherData
    /\ reqs[s].pc = "idle"
    /\ users[a] # Absent
    /\ UNCHANGED <<users, now>>
    /\ IF plan \notin validPlans
       THEN reqs' = [reqs EXCEPT ![s] =
                Response("initialize", a, NoRef, 400, FALSE,
                         "Invalid payment plan. Choose basic, premium, or yearly")]
       ELSE IF ~HasInfo(users[a])
       THEN reqs' = [reqs EXCEPT ![s] =
                Response("initialize", a, NoRef, 400, FALSE,
                         "Please complete your garage registration first")]
       ELSE IF users[a].paymentStatus \notin eligibleStatuses
       THEN reqs' = [reqs EXCEPT ![s] =
                Response("initialize", a, NoRef, 400, FALSE, "Payment not allowed at this stage")]
       ELSE IF users[a].verificationStatus \notin eligibleVerificationStatuses
       THEN reqs' = [reqs EXCEPT ![s] =
                Response("initialize", a, NoRef, 400, FALSE, "Cannot process payment when status is")]
       ELSE reqs' = [reqs EXCEPT ![s] =
                [op |-> "initialize", pc |-> "chapa", acct |-> a, plan |-> plan,
                 ref |-> generateTxRef(a, now, rnd)]]

InitOutcomes == {"success", "failed", "error"}

\* the account is marked processing as soon as the provider has been called
initializeChapaPaymentEager(s, outcome) ==
    /\ UNCHANGED otherData
    /\ reqs[s].pc = "chapa"
    /\ UNCHANGED now
    /\ LET r == reqs[s] IN
       IF outcome = "success"
       THEN /\ UNCHANGED users
            /\ reqs' = [reqs EXCEPT ![s] =
                Request("initialize", r.acct, users[r.acct],
                        TransactionSaved(users[r.acct], r.ref, r.plan, PlanAmount(r.plan)), r.ref)]
       ELSE /\ users' = [users EXCEPT ![r.acct].paymentStatus = "processing"]
            /\ IF outcome = "failed"
               THEN reqs' = [reqs EXCEPT ![s] =
                        Response("initialize", r.acct, NoRef, 400, FALSE, "Payment initialization failed")]
               ELSE reqs' = [reqs EXCEPT ![s] =
                        Response("initialize", r.acct, NoRef, 500, FALSE, "Error connecting to payment gateway")]

\* the checkout URL is returned on provider success without the write
initializeChapaPaymentUnsaved(s, outcome) ==
    /\ UNCHANGED otherData
    /\ reqs[s].pc = "chapa"
    /\ UNCHANGED <<users, now>>
    /\ LET r == reqs[s] IN
       IF outcome = "success"
       THEN reqs' = [reqs EXCEPT ![s] =
                Response("initialize", r.acct, r.ref, 200, TRUE, "Payment initialized successfully")]
       ELSE IF outcome = "failed"
       THEN reqs' = [reqs EXCEPT ![s] =
                Response("initialize", r.acct, NoRef, 400, FALSE, "Payment initialization failed")]
       ELSE reqs' = [reqs EXCEPT ![s] =
                Response("initialize", r.acct, NoRef, 500, FALSE, "Error connecting to payment gateway")]

\* the provider answers; on success the user is loaded again and assigned
initializeChapaPayment(s, outcome) ==
    /\ UNCHANGED otherData
    /\ reqs[s].pc = "chapa"
    /\ UNCHANGED <<users, now>>
    /\ LET r == reqs[s] IN
       IF outcome = "success"
       THEN reqs' = [reqs EXCEPT ![s] =
                Request("initialize", r.acct, users[r.acct],
                        TransactionSaved(users[r.acct], r.ref, r.plan, PlanAmount(r.plan)), r.ref)]
       ELSE IF outcome = "failed"
       THEN reqs' = [reqs EXCEPT ![s] =
                Response("initialize", r.acct, NoRef, 400, FALSE, "Payment initialization failed")]
       ELSE reqs' = [reqs EXCEPT ![s] =
                Response("initialize", r.acct, NoRef, 500, FALSE, "Error connecting to payment gateway")]

(***************************************************************************)
(* Admin decisions: src/routes/auth.routes.js and the model methods.       *)
(***************************************************************************)
\* an entry of garageInfo.adminReviews; the entries are only ever appended, and
\* the model keeps none of their fields
ReviewEntry(status) == "review"

\* userSchema.methods.approve
approve(d, t, rnd) ==
    [d EXCEPT !.verificationStatus = "approved",
              !.approvalNumber = <<t, rnd>>,
              !.adminReviews = Append(@, ReviewEntry("approved"))]

\* userSchema.methods.reject
reject(d) ==
    [d EXCEPT !.verificationStatus = "rejected",
              !.adminReviews = Append(@, ReviewEntry("rejected"))]

\* userSchema.methods.requestMoreInfo
requestMoreInfo(d) ==
    [d EXCEPT !.verificationStatus = "more_info_needed",
              !.adminReviews = Append(@, ReviewEntry("needs_info"))]

\* userSchema.methods.suspend
suspend(d) ==
    [d EXCEPT !.verificationStatus = "suspended",
              !.adminReviews = Append(@, ReviewEntry("suspended"))]

\* the approve route without its payment check
approveRouteUnchecked(s, a, rnd) ==
    /\ UNCHANGED otherData
    /\ reqs[s].pc = "idle"
    /\ UNCHANGED <<users, now>>
    /\ IF users[a] = Absent
       THEN reqs' = [reqs EXCEPT ![s] =
                Response("approve", a, NoRef, 404, FALSE, "Garage owner not found")]
       ELSE IF ~HasInfo(users[a])
       THEN reqs' = [reqs EXCEPT ![s] =
                Response("approve", a, NoRef, 500, FALSE, "Error approving garage")]
       ELSE /\ Len(users[a].adminReviews) < MaxReviews
            /\ reqs' = [reqs EXCEPT ![s] =
                   Request("approve", a, users[a], approve(users[a], now, rnd), NoRef)]

\* PUT /auth/admin/garages/:garageId/approve
approveRoute(s, a, rnd) ==
    /\ UNCHANGED otherData
    /\ reqs[s].pc = "idle"
    /\ UNCHANGED <<users, now>>
    /\ IF users[a] = Absent
       THEN reqs' = [reqs EXCEPT ![s] =
                Response("approve", a, NoRef, 404, FALSE, "Garage owner not found")]
       ELSE IF ~HasInfo(users[a])
       THEN reqs' = [reqs EXCEPT ![s] =
                Response("approve", a, NoRef, 500, FALSE, "Error approving garage")]
       ELSE IF users[a].paymentStatus # "paid" /\ users[a].paymentStatus # "not_required"
       THEN reqs' = [reqs EXCEPT ![s] =
                Response("approve", a, NoRef, 400, FALSE, "Cannot approve: Payment not completed")]
       ELSE /\ Len(users[a].adminReviews) < MaxReviews
            /\ reqs' = [reqs EXCEPT ![s] =
                   Request("approve", a, users[a], approve(users[a], now, rnd), NoRef)]

AdminDecision(d, decision) ==
    IF decision = "reject" THEN reject(d)
    ELSE IF decision = "request-info" THEN requestMoreInfo(d)
    ELSE suspend(d)

AdminErrorMessage(decision) ==
    IF decision = "reject" THEN "Error rejecting garage"
    ELSE IF decision = "request-info" THEN "Error requesting information"
    ELSE "Error suspending garage"

\* PUT /auth/admin/garages/:garageId/reject | request-info | suspend
decisionRoute(s, a, decision, hasReason) ==
    /\ UNCHANGED otherData
    /\ reqs[s].pc = "idle"
    /\ UNCHANGED <<users, now>>
    /\ IF ~hasReason
       THEN reqs' = [reqs EXCEPT ![s] =
                Response(decision, a, NoRef, 400, FALSE, "reason is required")]
       ELSE IF users[a] = Absent
       THEN reqs' = [reqs EXCEPT ![s] =
                Response(decision, a, NoRef, 404, FALSE, "Garage owner not found")]
       ELSE IF ~HasInfo(users[a])
       THEN reqs' = [reqs EXCEPT ![s] =
                Response(decision, a, NoRef, 500, FALSE, AdminErrorMessage(decision))]
       ELSE /\ Len(users[a].adminReviews) < MaxReviews
            /\ reqs' = [reqs EXCEPT ![s] =
                   Request(decision, a, users[a], AdminDecision(users[a], decision), NoRef)]

(***************************************************************************)
(* Document upload: POST /auth/documents/upload.                           *)
(***************************************************************************)
\* the handler's assignments up to save()
DocumentPushed(d) ==
    [d EXCEPT !.documents = Append(@, "pending"),
              !.documentsSubmitted = TRUE,
              !.verificationStatus = IF @ = "registration_started" THEN "documents_uploaded" ELSE @]

uploadDocument(s, a) ==
    /\ UNCHANGED otherData
    /\ reqs[s].pc = "idle"
    /\ users[a] # Absent
    /\ UNCHANGED <<users, now>>
    /\ IF ~HasInfo(users[a])
       THEN reqs' = [reqs EXCEPT ![s] =
                Response("uploadDocument", a, NoRef, 403, FALSE, "Only garage owners can upload documents")]
       ELSE IF ~registrationProgressInSchema
       THEN \* user.garageInfo.registrationProgress is undefined: TypeError
            reqs' = [reqs EXCEPT ![s] =
                Response("uploadDocument", a, NoRef, 500, FALSE, "Server error during document upload")]
       ELSE /\ Len(users[a].documents) < MaxDocs
            /\ reqs' = [reqs EXCEPT ![s] =
                   Request("uploadDocument", a, users[a], DocumentPushed(users[a]), NoRef)]

\* userSchema.methods.addDocument, which no handler calls
addDocument(d) ==
    [d EXCEPT !.documents = Append(@, "pending"),
              !.documentsSubmitted = TRUE,
              !.verificationStatus = "documents_uploaded"]

\* the upload done through the model's addDocument method
uploadDocumentsByAddDocument(s, a) ==
    /\ UNCHANGED otherData
    /\ reqs[s].pc = "idle"
    /\ users[a] # Absent
    /\ UNCHANGED <<users, now>>
    /\ IF ~HasInfo(users[a])
       THEN reqs' = [reqs EXCEPT ![s] =
                Response("uploadDocuments", a, NoRef, 403, FALSE, "Only garage owners can upload documents")]
       ELSE /\ Len(users[a].documents) < MaxDocs
            /\ reqs' = [reqs EXCEPT ![s] =
                   Request("uploadDocuments", a, users[a], addDocument(users[a]), NoRef)]

\* POST /auth/documents/upload-multiple: the same assignments after the pushes
uploadDocuments(s, a) ==
    /\ UNCHANGED otherData
    /\ reqs[s].pc = "idle"
    /\ users[a] # Absent
    /\ UNCHANGED <<users, now>>
    /\ IF ~HasInfo(users[a])
       THEN reqs' = [reqs EXCEPT ![s] =
                Response("uploadDocuments", a, NoRef, 403, FALSE, "Only garage owners can upload documents")]
       ELSE IF ~registrationProgressInSchema
       THEN reqs' = [reqs EXCEPT ![s] =
                Response("uploadDocuments", a, NoRef, 500, FALSE, "Server error during documents upload")]
       ELSE /\ Len(users[a].documents) < MaxDocs
            /\ reqs' = [reqs EXCEPT ![s] =
                   Request("uploadDocuments", a, users[a], DocumentPushed(users[a]), NoRef)]

(***************************************************************************)
(* Document review and removal.  A document is named by its place in       *)
(* garageInfo.documents; every documentType of the schema is required.     *)
(***************************************************************************)
allVerified(docs) == \A i \in 1..Len(docs) : docs[i] = "verified"

\* userSchema.methods.verifyDocument: the flag is only ever set
verifyDocument(d, i) ==
    LET docs == [d.documents EXCEPT ![i] = "verified"] IN
    [d EXCEPT !.documents = docs,
              !.documentsVerified = IF allVerified(docs) THEN TRUE ELSE @]

\* PUT /auth/admin/garages/:garageId/verify-document/:documentId
verifyDocumentRoute(s, a, i) ==
    /\ UNCHANGED otherData
    /\ reqs[s].pc = "idle"
    /\ UNCHANGED <<users, now>>
    /\ IF users[a] = Absent
       THEN reqs' = [reqs EXCEPT ![s] =
                Response("verifyDocument", a, NoRef, 404, FALSE, "Garage owner not found")]
       ELSE IF ~HasInfo(users[a]) \/ i > Len(users[a].documents)
       THEN reqs' = [reqs EXCEPT ![s] =
                Response("verifyDocument", a, NoRef, 500, FALSE, "Error verifying document")]
       ELSE reqs' = [reqs EXCEPT ![s] =
                Request("verifyDocument", a, users[a], verifyDocument(users[a], i), NoRef)]

\* document.remove(): the entry leaves the array, nothing else is assigned
documentRemoved(d, i) ==
    [d EXCEPT !.documents = SubSeq(@, 1, i - 1) \o SubSeq(@, i + 1, Len(@))]

\* DELETE /auth/documents/:documentId; blobFail is cloudinary.uploader.destroy
\* throwing, which deleteFromCloudinary throws again
deleteDocument(s, a, i, blobFail) ==
    /\ UNCHANGED otherData
    /\ reqs[s].pc = "idle"
    /\ UNCHANGED <<users, now>>
    /\ IF users[a] = Absent
       THEN reqs' = [reqs EXCEPT ![s] =
                Response("deleteDocument", a, NoRef, 404, FALSE, "User not found")]
       ELSE IF ~HasInfo(users[a])
       THEN reqs' = [reqs EXCEPT ![s] =
                Response("deleteDocument", a, NoRef, 403, FALSE, "Only garage owners can delete documents")]
       ELSE IF i > Len(users[a].documents)
       THEN reqs' = [reqs EXCEPT ![s] =
                Response("deleteDocument", a, NoRef, 404, FALSE, "Document not found")]
       ELSE IF blobFail
       THEN reqs' = [reqs EXCEPT ![s] =
                Response("deleteDocument", a, NoRef, 500, FALSE, "Server error during document deletion")]
       ELSE reqs' = [reqs EXCEPT ![s] =
                Request("deleteDocument", a, users[a], documentRemoved(users[a], i), NoRef)]

(***************************************************************************)
(* Payment status: GET /payments/status.                                   *)
(***************************************************************************)
\* the data object of the response
StatusData(u) ==
    IF HasInfo(u)
    THEN [paymentStatus |-> u.paymentStatus,
          verificationStatus |-> u.verificationStatus,
          paymentDate |-> u.paymentDate,
          paymentExpiry |-> u.paymentExpiry,
          paymentPlan |-> u.paymentPlan,
          paymentTxRef |-> u.paymentTxRef]
    ELSE [paymentStatus |-> "not_required",
          verificationStatus |-> "pending",
          paymentDate |-> Null,
          paymentExpiry |-> Null,
          paymentPlan |-> "null",
          paymentTxRef |-> NoRef]

\* the authenticated user a reads the payment status
checkPaymentStatus(s, a) ==
    /\ UNCHANGED otherData
    /\ reqs[s].pc = "idle"
    /\ users[a] # Absent
    /\ UNCHANGED <<users, now>>
    /\ reqs' = [reqs EXCEPT ![s] =
           [op |-> "status", pc |-> "respond", acct |-> a, ref |-> NoRef,
            status |-> 200, success |-> TRUE, message |-> "",
            data |-> StatusData(users[a])]]

(***************************************************************************)
(* save() resolves or throws, and the handler builds its response.         *)
(***************************************************************************)
SavedResponse(r, after) ==
    IF r.op = "callback"
    THEN IF r.doc.paymentStatus = "paid"
         THEN IF \E a \in DOMAIN after : HasInfo(after[a]) /\ after[a].paymentTxRef = r.ref
              THEN Response("callback", r.acct, r.ref, 200, TRUE,
                            "Payment status updated successfully to PAID")
              ELSE Response("callback", r.acct, r.ref, 200, FALSE, "Error processing webhook")
         ELSE Response("callback", r.acct, r.ref, 200, TRUE, "Payment failed status recorded")
    ELSE IF r.op = "verify"
    THEN Response("verify", r.acct, r.ref, 200, TRUE,
                  IF r.doc.paymentStatus = "paid" THEN "verified" ELSE "not verified")
    ELSE IF r.op = "initialize"
    THEN Response("initialize", r.acct, r.ref, 200, TRUE, "Payment initialized successfully")
    ELSE IF r.op = "approve"
    THEN Response("approve", r.acct, r.ref, 200, TRUE, "Garage owner approved successfully")
    ELSE Response(r.op, r.acct, r.ref, 200, TRUE, "updated")

SaveErrorResponse(r) ==
    IF r.op = "callback"
    THEN Response("callback", r.acct, r.ref, 200, FALSE, "Error processing webhook")
    ELSE Response(r.op, r.acct, r.ref, 500, FALSE, "Server error")

userSave(s, dbFail) ==
    /\ UNCHANGED otherData
    /\ reqs[s].pc = "save"
    /\ UNCHANGED now
    /\ LET r == reqs[s] IN
       IF dbFail \/ ~ValidDoc(r.doc) \/ VersionConflict(users[r.acct], r.snap, r.doc)
       THEN /\ UNCHANGED users
            /\ reqs' = [reqs EXCEPT ![s] = SaveErrorResponse(r)]
       ELSE LET after == [users EXCEPT ![r.acct] = SaveDoc(users[r.acct], r.snap, r.doc)] IN
            /\ users' = after
            /\ reqs' = [reqs EXCEPT ![s] = SavedResponse(r, after)]

\* the response is sent and the request is over
respond(s) ==
    /\ UNCHANGED otherData
    /\ reqs[s].pc = "respond"
    /\ reqs' = [reqs EXCEPT ![s] = Idle]
    /\ UNCHANGED <<users, now>>

(***************************************************************************)
(* The requests that are enumerated.                                       *)
(***************************************************************************)
PlanInputs == {"basic", "yearly", "gold"}

ForceStatusInputs == {"paid", "failed", "bogus"}

ManualStatusInputs == {"paid", "failed", "refunded"}

\* the references a request names: one that is stored, one that is stored on
\* no account, and none
StoredRefs == {users[a].paymentTxRef : a \in {b \in DOMAIN users : HasInfo(users[b])}}

RequestRefs == StoredRefs \cup {UnknownRef, NoRef}

Next ==
    \/ Tick
    \/ \E s \in OneAtATime, a \in Accounts, n \in 0..MaxDocs, g \in BOOLEAN :
          registerGarageOwner(s, a, n, g)
    \/ \E s \in OneAtATime, a \in Accounts : register(s, a)
    \/ \E s \in OneAtATime, a \in Accounts : uploadDocument(s, a)
    \/ \E s \in OneAtATime, a \in Accounts, plan \in PlanInputs, rnd \in Rands :
          checkPaymentEligibility(s, a, plan, rnd)
    \/ \E s \in OneAtATime, o \in InitOutcomes : initializeChapaPayment(s, o)
    \/ \E s \in OneAtATime, ref \in RequestRefs \ {NoRef}, o \in ProviderOutcomes :
          verifyChapaPayment(s, ref, o)
    \/ \E s \in OneAtATime, ref \in RequestRefs, st \in WebhookStatuses,
          sig \in Signatures, f \in BOOLEAN : updatePaymentStatus(s, ref, st, sig, f)
    \/ \E s \in OneAtATime, ref \in RequestRefs, st \in {"success", "failed"} :
          debugWebhook(s, ref, st)
    \/ \E s \in OneAtATime, ref \in RequestRefs : forceUpdatePayment(s, ref)
    \/ \E s \in OneAtATime, a \in Accounts, st \in ForceStatusInputs :
          forceUpdateUser(s, a, st)
    \/ \E s \in OneAtATime, a \in Accounts, st \in ManualStatusInputs :
          manualPaymentUpdate(s, a, st)
    \/ \E s \in OneAtATime, a \in Accounts, rnd \in Rands : approveRoute(s, a, rnd)
    \/ \E s \in OneAtATime, a \in Accounts, d \in {"reject", "request-info", "suspend"},
          h \in BOOLEAN : decisionRoute(s, a, d, h)
    \/ \E s \in OneAtATime, f \in BOOLEAN : userSave(s, f)
    \/ \E s \in OneAtATime, a \in Accounts : checkPaymentStatus(s, a)
    \/ \E s \in OneAtATime : respond(s)

Spec == Init /\ [][Next]_vars

(***************************************************************************)
(* Properties.                                                             *)
(***************************************************************************)
PaymentSettled == {"paid", "not_required"}

PaidAndCompleted(u) ==
    u.paymentStatus = "paid" /\ u.verificationStatus = "payment_completed"

\* the request in slot s is a handler about to save the outcome of a success
\* notification (webhook or verify poll)
SavingSuccess(s) ==
    /\ reqs[s].pc = "save"
    /\ reqs[s].op \in {"callback", "verify"}
    /\ reqs[s].doc.paymentStatus = "paid"

\* the request in slot s is a handler about to save the outcome of a failure signal
SavingFailure(s) ==
    /\ reqs[s].pc = "save"
    /\ reqs[s].op \in {"callback", "verify"}
    /\ reqs[s].doc.paymentStatus = "failed"

\* C1: in every reachable state an account whose verificationStatus is approved
\* has paymentStatus paid or not_required.
ApprovedImpliesPaid ==
    \A a \in Accounts :
        (HasInfo(users[a]) /\ users[a].verificationStatus = "approved")
            => users[a].paymentStatus \in PaymentSettled

\* C2: an approve request on a garage-owner account whose paymentStatus is neither
\* paid nor not_required ends at once with the 400 payment-not-completed response,
\* and no account is written.
ApproveRefusedUnlessPaid ==
    [][\A s \in Slots :
          ( /\ reqs[s].pc = "idle"
            /\ reqs'[s].op = "approve"
            /\ HasInfo(users[reqs'[s].acct])
            /\ users[reqs'[s].acct].paymentStatus \notin PaymentSettled )
          => /\ reqs'[s].pc = "respond"
             /\ reqs'[s].status = 400
             /\ ~reqs'[s].success
             /\ reqs'[s].message = "Cannot approve: Payment not completed"
             /\ users' = users]_vars

ApproveRefusedSeen ==
    \E s \in Slots :
        /\ reqs[s].pc = "respond"
        /\ reqs[s].op = "approve"
        /\ reqs[s].status = 400
        /\ HasInfo(users[reqs[s].acct])
        /\ users[reqs[s].acct].paymentStatus \notin PaymentSettled
        /\ users[reqs[s].acct].adminReviews = <<>>

\* C3: a success webhook applied to an account that is exactly in the state a
\* success webhook leaves (the same payload delivered again) changes no field
\* of the account.
SecondSuccessWebhookChangesNothing ==
    [][\A s \in Slots :
          ( /\ SavingSuccess(s)
            /\ reqs[s].op = "callback"
            /\ reqs'[s].pc = "respond"
            /\ LET u == users[reqs[s].acct] IN
                 /\ u.paymentDate # Null
                 /\ u = PaymentSuccessful(u, u.paymentDate) )
          => users'[reqs[s].acct] = users[reqs[s].acct]]_vars

\* C4: a success notification saved on an account whose paymentStatus is already
\* paid keeps the verificationStatus an admin decision has set.
AdminStatusSurvivesSuccess ==
    [][\A s \in Slots :
          ( /\ SavingSuccess(s)
            /\ users[reqs[s].acct].paymentStatus = "paid"
            /\ users[reqs[s].acct].verificationStatus \in
                  {"approved", "rejected", "suspended", "more_info_needed"} )
          => users'[reqs[s].acct].verificationStatus =
                users[reqs[s].acct].verificationStatus]_vars

\* C5: once verificationStatus is rejected or banned, the save of an owner- or
\* provider-triggered request (upload, initiate, verify poll, webhook) leaves
\* verificationStatus as it is.
RejectedStaysRejected ==
    [][\A s \in Slots :
          ( /\ reqs[s].pc = "save"
            /\ reqs[s].op \in {"uploadDocument", "initialize", "verify", "callback"}
            /\ users[reqs[s].acct].verificationStatus \in {"rejected", "banned"} )
          => users'[reqs[s].acct].verificationStatus =
                users[reqs[s].acct].verificationStatus]_vars

\* C6: an account becomes paid and payment_completed only in the save of a
\* success webhook or verify poll for the reference the account stores.
PaidOnlyByProviderConfirmation ==
    [][\A a \in Accounts :
          ( /\ HasInfo(users[a])
            /\ ~PaidAndCompleted(users[a])
            /\ PaidAndCompleted(users'[a]) )
          => \E s \in Slots :
                /\ SavingSuccess(s)
                /\ reqs[s].acct = a
                /\ reqs[s].ref = users[a].paymentTxRef]_vars

\* C7: a failure signal (failed webhook, non-success verify poll) saved on an
\* account whose paymentStatus is paid leaves paymentStatus and
\* verificationStatus unchanged.
FailureKeepsPaid ==
    [][\A s \in Slots :
          ( /\ SavingFailure(s)
            /\ users[reqs[s].acct].paymentStatus = "paid" )
          => /\ users'[reqs[s].acct].paymentStatus = "paid"
             /\ users'[reqs[s].acct].verificationStatus =
                   users[reqs[s].acct].verificationStatus]_vars

\* C8: a webhook naming a transaction reference stored on no account is answered
\* at once with status 200 and success false (user not found, or the error
\* acknowledgement when the lookup throws), and no account is written.
UnmatchedWebhookAcknowledged ==
    [][\A s \in Slots :
          ( /\ reqs[s].pc = "idle"
            /\ reqs'[s].op = "callback"
            /\ reqs'[s].ref # NoRef
            /\ FindByTxRef(reqs'[s].ref) = {} )
          => /\ reqs'[s].pc = "respond"
             /\ reqs'[s].status = 200
             /\ ~reqs'[s].success
             /\ reqs'[s].message \in
                   {"User not found for this transaction", "Error processing webhook"}
             /\ users' = users]_vars

UnmatchedWebhookSeen ==
    \E s \in Slots :
        /\ reqs[s].pc = "respond"
        /\ reqs[s].op = "callback"
        /\ reqs[s].message = "User not found for this transaction"
        /\ FindByTxRef(reqs[s].ref) = {}
        /\ \E a \in Accounts : HasInfo(users[a]) /\ users[a].paymentTxRef # NoRef

\* C9: every response of POST /payments/callback has HTTP status 200.
CallbackAlwaysAcknowledged ==
    \A s \in Slots :
        (reqs[s].pc = "respond" /\ reqs[s].op = "callback") => reqs[s].status = 200

CallbackErrorAcknowledged ==
    \E s \in Slots :
        /\ reqs[s].pc = "respond"
        /\ reqs[s].op = "callback"
        /\ reqs[s].message = "Error processing webhook"
        /\ reqs[s].acct # NoAcct

\* C10 as stated: an account created by registration starts with paymentStatus
\* pending and verificationStatus documents_uploaded if a document was attached,
\* otherwise registration_started.
RegistrationStartsStaged ==
    [][\A a \in Accounts :
          (users[a].kind = "absent" /\ HasInfo(users'[a]))
          => /\ users'[a].paymentStatus = "pending"
             /\ users'[a].verificationStatus =
                   IF Len(users'[a].documents) > 0
                   THEN "documents_uploaded" ELSE "registration_started"]_vars

\* C10 amended: an account created by POST /auth/register-garage starts with
\* paymentStatus pending and verificationStatus pending_payment whether or not a
\* document was attached; the documents only set documentsSubmitted.
RegistrationStartsPendingPayment ==
    [][\A a \in Accounts :
          (users[a].kind = "absent" /\ HasInfo(users'[a]))
          => /\ users'[a].paymentStatus = "pending"
             /\ users'[a].verificationStatus = "pending_payment"
             /\ users'[a].documentsSubmitted = (Len(users'[a].documents) > 0)]_vars

RegisteredWithDocument ==
    \E s \in Slots :
        /\ reqs[s].pc = "respond"
        /\ reqs[s].op = "registerGarageOwner"
        /\ reqs[s].status = 201
        /\ Len(users[reqs[s].acct].documents) > 0
        /\ users[reqs[s].acct].verificationStatus = "pending_payment"

\* C11: when a success signal is saved, paymentExpiry is 30 days after the
\* application time for the plans basic and premium, and 365 days after it for
\* the plan yearly.
ExpiryFollowsPlan ==
    [][\A s \in Slots :
          ( /\ SavingSuccess(s)
            /\ reqs'[s].pc = "respond"
            /\ reqs'[s].status = 200
            /\ reqs'[s].success )
          => LET u == users'[reqs[s].acct] IN
               u.paymentExpiry = u.paymentDate +
                   (IF u.paymentPlan = "yearly" THEN YearDays ELSE ThirtyDays)]_vars

\* C12: in the sequence register, attach one document, initiate for plan basic,
\* success webhook, every step is accepted and GET /payments/status then
\* reports paid, payment_completed, the amount 500 and a paymentExpiry 30 days
\* after the webhook: no document upload of a registered garage owner is
\* answered with an error, and the status read after a successful basic payment
\* carries these values.
EndToEndAccepted ==
    \A s \in Slots :
        /\ ( /\ reqs[s].pc = "respond"
             /\ reqs[s].op = "uploadDocument"
             /\ HasInfo(users[reqs[s].acct]) )
           => reqs[s].status = 200
        /\ ( /\ reqs[s].pc = "respond"
             /\ reqs[s].op = "status"
             /\ HasInfo(users[reqs[s].acct])
             /\ users[reqs[s].acct].paymentPlan = "basic"
             /\ users[reqs[s].acct].paymentDate # Null
             /\ users[reqs[s].acct] =
                   PaymentSuccessful(users[reqs[s].acct], users[reqs[s].acct].paymentDate) )
           => /\ reqs[s].data.paymentStatus = "paid"
              /\ reqs[s].data.verificationStatus = "payment_completed"
              /\ reqs[s].data.paymentExpiry = reqs[s].data.paymentDate + ThirtyDays
              /\ "paymentAmount" \in DOMAIN reqs[s].data

\* the states from which the initiate of C13 may be accepted
InitiateEligible(u) ==
    /\ HasInfo(u)
    /\ u.paymentStatus \in {"pending", "failed", "expired"}
    /\ u.verificationStatus \in
          {"documents_uploaded", "pending_payment", "more_info_needed", "registration_started"}

\* C13: a payment initiate is passed on to the provider only when paymentStatus
\* is pending, failed or expired and verificationStatus is documents_uploaded,
\* pending_payment, more_info_needed or registration_started; in every other
\* state it is answered at once with a 400 and no account is written.
InitiateOnlyWhenEligible ==
    [][\A s \in Slots :
          (reqs[s].pc = "idle" /\ reqs'[s].op = "initialize")
          => /\ users' = users
             /\ reqs'[s].pc = "chapa" => InitiateEligible(users[reqs'[s].acct])
             /\ ~InitiateEligible(users[reqs'[s].acct])
                   => /\ reqs'[s].pc = "respond"
                      /\ reqs'[s].status = 400
                      /\ ~reqs'[s].success]_vars

InitiateRefusedSeen ==
    \E s \in Slots :
        /\ reqs[s].pc = "respond"
        /\ reqs[s].op = "initialize"
        /\ reqs[s].status = 400
        /\ HasInfo(users[reqs[s].acct])
        /\ users[reqs[s].acct].paymentStatus \in {"pending", "failed", "expired"}
        /\ ~InitiateEligible(users[reqs[s].acct])

\* C14 as stated: in every state in which the caller (the 200 response of
\* initiate) or the provider (its initialize call has succeeded) knows a
\* reference issued by initiate, the reference is stored on the account.
IssuedReferenceStored ==
    \A s \in Slots :
        ( /\ reqs[s].op = "initialize"
          /\ \/ reqs[s].pc = "save"
             \/ reqs[s].pc = "respond" /\ reqs[s].status = 200 )
        => users[reqs[s].acct].paymentTxRef = reqs[s].ref

\* C14 amended: when initiate answers the caller with a reference (200), the
\* reference, paymentStatus processing, the plan and its amount are on the
\* account; the provider learns the reference before it is stored.
ReturnedReferenceStored ==
    \A s \in Slots :
        ( /\ reqs[s].op = "initialize"
          /\ reqs[s].pc = "respond"
          /\ reqs[s].status = 200 )
        => LET u == users[reqs[s].acct] IN
             /\ u.paymentTxRef = reqs[s].ref
             /\ u.paymentTxRef # NoRef
             /\ u.paymentStatus = "processing"
             /\ u.paymentPlan \in validPlans
             /\ u.paymentAmount = PlanAmount(u.paymentPlan)

CheckoutReturned ==
    \E s \in Slots :
        /\ reqs[s].op = "initialize"
        /\ reqs[s].pc = "respond"
        /\ reqs[s].status = 200
        /\ users[reqs[s].acct].paymentTxRef = reqs[s].ref
        /\ users[reqs[s].acct].paymentPlan = "yearly"

\* C15: a step of initiate that ends in a refusal (the provider's call failed,
\* timed out or answered non-success, or the write failed) leaves the account
\* as it was, and the write of initiate that puts an account in processing
\* stores the request's transaction reference with it.
FailedInitiateWritesNothing ==
    [][\A s \in Slots :
          reqs[s].op = "initialize" /\ reqs[s].pc \in {"chapa", "save"}
          => LET a == reqs[s].acct IN
               /\ ( reqs'[s].pc = "respond" /\ reqs'[s].status # 200 )
                     => users' = users
               /\ users' # users
                     => /\ reqs[s].pc = "save"
                        /\ users'[a].paymentStatus = "processing"
                        /\ users'[a].paymentTxRef = reqs[s].ref
                        /\ users'[a].paymentTxRef # NoRef]_vars

InitiateFailedSeen ==
    \E s \in Slots :
        /\ reqs[s].op = "initialize"
        /\ reqs[s].pc = "respond"
        /\ reqs[s].status = 400
        /\ reqs[s].message = "Payment initialization failed"
        /\ users[reqs[s].acct].paymentStatus = "pending"
        /\ users[reqs[s].acct].paymentTxRef = NoRef

\* C16: a reference generated by initiate that equals a reference stored on an
\* account is refused rather than stored: the write of an initiate whose
\* reference some account already holds changes nothing and is not answered 200.
CollidingReferenceRefused ==
    [][\A s \in Slots :
          ( /\ reqs[s].op = "initialize"
            /\ reqs[s].pc = "save"
            /\ reqs'[s].pc = "respond"
            /\ \E a \in Accounts :
                  HasInfo(users[a]) /\ users[a].paymentTxRef = reqs[s].ref )
          => /\ users' = users
             /\ reqs'[s].status # 200]_vars

\* C17: a transaction reference issued to an account stays bound to it: the
\* account found by a reference is still found by it after every step, also
\* after the account has started a newer payment attempt.
ReferenceStaysBound ==
    [][\A a \in Accounts :
          ( HasInfo(users[a]) /\ users[a].paymentTxRef # NoRef )
          => /\ HasInfo(users'[a])
             /\ users'[a].paymentTxRef = users[a].paymentTxRef]_vars

\* C18: from every account state and for every provider outcome (success,
\* failed, pending), the verify poll and the webhook leave the same
\* paymentStatus, verificationStatus and paymentExpiry on the account.
VerifyAppliesWebhookTransition ==
    \A a \in Accounts :
        HasInfo(users[a])
        => \A outcome \in ProviderOutcomes \ {"error"} :
              LET v == verifyAssigns(users[a], now, outcome)
                  w == webhookAssigns(users[a], now, outcome)
              IN  /\ v.paymentStatus = w.paymentStatus
                  /\ v.verificationStatus = w.verificationStatus
                  /\ v.paymentExpiry = w.paymentExpiry

\* C19: an admin approve of an account whose verificationStatus is neither
\* payment_completed nor under_review is refused as an invalid transition: the
\* handler answers with an error at once and never reaches its write.
ApproveOnlyFromReviewable ==
    [][\A s \in Slots :
          ( /\ reqs[s].pc = "idle"
            /\ reqs'[s].op = "approve"
            /\ HasInfo(users[reqs'[s].acct])
            /\ users[reqs'[s].acct].verificationStatus
                  \notin {"payment_completed", "under_review"} )
          => /\ reqs'[s].pc = "respond"
             /\ reqs'[s].status # 200
             /\ users' = users]_vars

\* C20: the approval number is immutable: once an account has an
\* approvalNumber no step changes it, a second approval included.
ApprovalNumberImmutable ==
    [][\A a \in Accounts :
          ( HasInfo(users[a]) /\ users[a].approvalNumber # <<>> )
          => /\ HasInfo(users'[a])
             /\ users'[a].approvalNumber = users[a].approvalNumber]_vars

(***************************************************************************)
(* Overlapping admin decisions: two requests in flight on one paid garage  *)
(* owner.                                                                  *)
(***************************************************************************)
\* a garage owner after registration and a recorded payment
PaidOwner == ForcePaid(NewGarageInfo(0), 0)

InitRace ==
    /\ users = [a \in Accounts |-> PaidOwner]
    /\ reqs = [s \in Slots |-> Idle]
    /\ now = 0
    /\ InitOtherData

NextRace ==
    \/ Tick
    \/ \E s \in Slots, a \in Accounts, rnd \in Rands : approveRoute(s, a, rnd)
    \/ \E s \in Slots, a \in Accounts, d \in {"reject", "request-info", "suspend"} :
          decisionRoute(s, a, d, TRUE)
    \/ \E s \in Slots : userSave(s, FALSE)
    \/ \E s \in Slots : respond(s)

SpecRace == InitRace /\ [][NextRace]_vars

AdminOps == {"approve", "reject", "request-info", "suspend"}

\* C21: when admin decisions on one account overlap, every save is accepted
\* (none is refused as stale) and leaves on the account the verificationStatus
\* that this decision assigned, so the decision saved last decides the status.
LastDecisionWins ==
    [][\A s \in Slots :
          ( /\ reqs[s].pc = "save"
            /\ reqs[s].op \in AdminOps
            /\ reqs'[s].pc = "respond" )
          => /\ reqs'[s].status = 200
             /\ users'[reqs[s].acct].verificationStatus
                   = reqs[s].doc.verificationStatus]_vars

(***************************************************************************)
(* The document handlers on their own: registration with documents, then   *)
(* uploads, reviews and removals, one request at a time.                   *)
(***************************************************************************)
NextDocs ==
    \/ \E s \in OneAtATime, a \in Accounts, n \in 0..MaxRegDocs, g \in BOOLEAN :
          registerGarageOwner(s, a, n, g)
    \/ \E s \in OneAtATime, a \in Accounts : register(s, a)
    \/ \E s \in OneAtATime, a \in Accounts : uploadDocument(s, a)
    \/ \E s \in OneAtATime, a \in Accounts : uploadDocuments(s, a)
    \/ \E s \in OneAtATime, a \in Accounts, i \in 1..MaxRegDocs : verifyDocumentRoute(s, a, i)
    \/ \E s \in OneAtATime, a \in Accounts, i \in 1..MaxRegDocs, f \in BOOLEAN :
          deleteDocument(s, a, i, f)
    \/ \E s \in OneAtATime, f \in BOOLEAN : userSave(s, f)
    \/ \E s \in OneAtATime : respond(s)

SpecDocs == Init /\ [][NextDocs]_vars

\* C22: a request to remove a document the account holds is not failed by the
\* blob store: the handler answers with an error at once only when the user
\* or the document is missing, and otherwise goes on to remove the entry.
BlobFailureDoesNotBlockRemoval ==
    [][\A s \in Slots :
          ( /\ reqs[s].pc = "idle"
            /\ reqs'[s].op = "deleteDocument"
            /\ reqs'[s].pc = "respond" )
          => reqs'[s].status \in {403, 404}]_vars

DocumentOps == {"uploadDocument", "uploadDocuments", "verifyDocument", "deleteDocument"}

\* C23: after every completed operation on an account's documents, as long as
\* the account holds a document, documentsVerified is true exactly when every
\* document has status verified.
DocumentsVerifiedRecomputed ==
    [][\A s \in Slots :
          ( /\ reqs[s].pc = "save"
            /\ reqs[s].op \in DocumentOps
            /\ reqs'[s].pc = "respond"
            /\ reqs'[s].status = 200
            /\ users'[reqs[s].acct].documents # <<>> )
          => users'[reqs[s].acct].documentsVerified
                = allVerified(users'[reqs[s].acct].documents)]_vars

UploadOps == {"uploadDocument", "uploadDocuments"}

Ratings == {4, 5}

LiveGarage == [state |-> "live", isDeleted |-> FALSE, averageRating |-> 0, totalReviews |-> 0]

\* { $match: { garage: garageId, isDeleted: false } }
Matched(rv, g) == {i \in 1..Len(rv) : rv[i].garage = g /\ ~rv[i].isDeleted}

RECURSIVE SumRatings(_, _)
SumRatings(rv, idx) ==
    IF idx = {} THEN 0
    ELSE LET i == CHOOSE j \in idx : TRUE IN rv[i].rating + SumRatings(rv, idx \ {i})

\* Math.round(avgRating * 10) / 10, in tenths
RoundTenth(sum, n) == (20 * sum + n) \div (2 * n)

\* the aggregation of updateGarageRating and the update it leads to
GarageStats(rv, g) ==
    LET idx == Matched(rv, g) IN
    IF idx = {}
    THEN [averageRating |-> 0, totalReviews |-> 0]
    ELSE [averageRating |-> RoundTenth(SumRatings(rv, idx), Cardinality(idx)),
          totalReviews |-> Cardinality(idx)]

\* Review.findOne({ user, garage, isDeleted: false })
existingReview(c, g) ==
    \E i \in 1..Len(reviews) :
        reviews[i].user = c /\ reviews[i].garage = g /\ ~reviews[i].isDeleted

\* the unique index { user: 1, garage: 1 }, which ignores isDeleted
DuplicateKey(c, g) ==
    \E i \in 1..Len(reviews) : reviews[i].user = c /\ reviews[i].garage = g

\* POST /reviews up to Review.create
createReview(s, c, g, r) ==
    /\ reqs[s].pc = "idle"
    /\ UNCHANGED <<users, now, store>>
    /\ IF existingReview(c, g)
       THEN reqs' = [reqs EXCEPT ![s] =
                Response("createReview", c, NoRef, 400, FALSE, "You have already reviewed this garage")]
       ELSE reqs' = [reqs EXCEPT ![s] =
                [op |-> "createReview", pc |-> "insert", acct |-> c, garage |-> g, rating |-> r]]

\* Review.create: the insert, refused by the unique index
reviewInsert(s) ==
    /\ reqs[s].pc = "insert"
    /\ UNCHANGED <<users, now>>
    /\ LET q == reqs[s] IN
       IF DuplicateKey(q.acct, q.garage)
       THEN /\ UNCHANGED store
            /\ reqs' = [reqs EXCEPT ![s] =
                   Response("createReview", q.acct, NoRef, 500, FALSE, "E11000 duplicate key error")]
       ELSE /\ store' = [store EXCEPT !.reviews =
                   Append(@, [user |-> q.acct, garage |-> q.garage,
                              rating |-> q.rating, isDeleted |-> FALSE])]
            /\ reqs' = [reqs EXCEPT ![s] =
                   [op |-> "createReview", pc |-> "aggregate", acct |-> q.acct, garage |-> q.garage]]

\* PUT /reviews/:id up to review.save()
updateReview(s, i, c, r) ==
    /\ reqs[s].pc = "idle"
    /\ UNCHANGED <<users, now, store>>
    /\ IF i > Len(reviews) \/ reviews[i].isDeleted
       THEN reqs' = [reqs EXCEPT ![s] =
                Response("updateReview", c, NoRef, 404, FALSE, "Review not found")]
       ELSE IF reviews[i].user # c
       THEN reqs' = [reqs EXCEPT ![s] =
                Response("updateReview", c, NoRef, 403, FALSE, "Not authorized")]
       ELSE reqs' = [reqs EXCEPT ![s] =
                [op |-> "updateReview", pc |-> "saveReview", acct |-> c, id |-> i,
                 garage |-> reviews[i].garage,
                 snap |-> reviews[i], doc |-> [reviews[i] EXCEPT !.rating = r]]]

\* DELETE /reviews/:id up to review.save()
deleteReview(s, i, c, isAdmin) ==
    /\ reqs[s].pc = "idle"
    /\ UNCHANGED <<users, now, store>>
    /\ IF i > Len(reviews) \/ reviews[i].isDeleted
       THEN reqs' = [reqs EXCEPT ![s] =
                Response("deleteReview", c, NoRef, 404, FALSE, "Review not found")]
       ELSE IF reviews[i].user # c /\ ~isAdmin
       THEN reqs' = [reqs EXCEPT ![s] =
                Response("deleteReview", c, NoRef, 403, FALSE, "Not authorized")]
       ELSE reqs' = [reqs EXCEPT ![s] =
                [op |-> "deleteReview", pc |-> "saveReview", acct |-> c, id |-> i,
                 garage |-> reviews[i].garage,
                 snap |-> reviews[i], doc |-> [reviews[i] EXCEPT !.isDeleted = TRUE]]]

\* the save of a soft delete that skips the hook
reviewSaveUnhooked(s) ==
    /\ reqs[s].pc = "saveReview"
    /\ UNCHANGED <<users, now>>
    /\ LET q == reqs[s] IN
       /\ store' = [store EXCEPT !.reviews[q.id] =
              [p \in DOMAIN @ |-> IF q.doc[p] # q.snap[p] THEN q.doc[p] ELSE @[p]]]
       /\ reqs' = [reqs EXCEPT ![s] =
              IF q.op = "deleteReview"
              THEN Response(q.op, q.acct, NoRef, 200, TRUE, "Review deleted successfully")
              ELSE [op |-> q.op, pc |-> "aggregate", acct |-> q.acct, garage |-> q.garage]]

\* review.save(): the modified paths are written, then the post('save') hook runs
reviewSave(s) ==
    /\ reqs[s].pc = "saveReview"
    /\ UNCHANGED <<users, now>>
    /\ LET q == reqs[s] IN
       /\ store' = [store EXCEPT !.reviews[q.id] =
              [p \in DOMAIN @ |-> IF q.doc[p] # q.snap[p] THEN q.doc[p] ELSE @[p]]]
       /\ reqs' = [reqs EXCEPT ![s] =
              [op |-> q.op, pc |-> "aggregate", acct |-> q.acct, garage |-> q.garage]]

\* updateGarageRating: this.aggregate([...])
aggregateRating(s) ==
    /\ reqs[s].pc = "aggregate"
    /\ UNCHANGED <<users, now, store>>
    /\ reqs' = [reqs EXCEPT ![s] =
           [op |-> reqs[s].op, pc |-> "rollup", acct |-> reqs[s].acct,
            garage |-> reqs[s].garage, stats |-> GarageStats(reviews, reqs[s].garage)]]

ReviewDone(op) ==
    IF op = "createReview" THEN [status |-> 201, message |-> "Review created successfully"]
    ELSE IF op = "updateReview" THEN [status |-> 200, message |-> "Review updated successfully"]
    ELSE [status |-> 200, message |-> "Review deleted successfully"]

\* updateGarageRating: Garage.findByIdAndUpdate with what the aggregation gave
writeRating(s) ==
    /\ reqs[s].pc = "rollup"
    /\ UNCHANGED <<users, now>>
    /\ LET q == reqs[s] IN
       /\ store' = IF garages[q.garage].state = "live"
                   THEN [store EXCEPT !.garages[q.garage].averageRating = q.stats.averageRating,
                                      !.garages[q.garage].totalReviews = q.stats.totalReviews]
                   ELSE store
       /\ reqs' = [reqs EXCEPT ![s] =
              Response(q.op, q.acct, NoRef, ReviewDone(q.op).status, TRUE, ReviewDone(q.op).message)]

InitReviews ==
    /\ users = [a \in Accounts |-> Absent]
    /\ reqs = [s \in Slots |-> Idle]
    /\ now = 0
    /\ store = [garages |-> [g \in GarageIds |-> LiveGarage],
                bookings |-> <<>>,
                reviews |-> <<>>,
                attempts |-> [a \in Accounts |-> NoAttempts]]

ReviewIds(C) == 1..(Cardinality(C) * Cardinality(GarageIds))

\* the review requests of the customers C, served in the slots S
NextReviewsOn(S, C) ==
    \/ \E s \in S, c \in C, g \in GarageIds, r \in Ratings : createReview(s, c, g, r)
    \/ \E s \in S : reviewInsert(s)
    \/ \E s \in S, i \in ReviewIds(C), c \in C, r \in Ratings : updateReview(s, i, c, r)
    \/ \E s \in S, i \in ReviewIds(C), c \in C, adm \in BOOLEAN : deleteReview(s, i, c, adm)
    \/ \E s \in S : reviewSave(s)
    \/ \E s \in S : aggregateRating(s)
    \/ \E s \in S : writeRating(s)
    \/ \E s \in S : respond(s)

\* review requests served one at a time
SpecReviewsSerial == InitReviews /\ [][NextReviewsOn(OneAtATime, Customers)]_vars

\* the customers whose requests overlap
RacingCustomers == {"c1", "c2"}

\* review requests that overlap
SpecReviews == InitReviews /\ [][NextReviewsOn(Slots, RacingCustomers)]_vars

\* C25: a review create for a (customer, garage) pair that already has a
\* non-deleted review of that customer is answered with a conflict (400 or
\* 409) and writes nothing: no review is stored and the garage's rollup stays,
\* at the check of the handler as well as at its insert when creates overlap.
DuplicateReviewIsConflict ==
    [][\A s \in Slots :
          /\ \A c \in Customers, g \in GarageIds, r \in Ratings :
                ( createReview(s, c, g, r) /\ existingReview(c, g) )
                => /\ reqs'[s].pc = "respond"
                   /\ reqs'[s].status \in {400, 409}
                   /\ store' = store
          /\ ( /\ reqs[s].pc = "insert"
               /\ reqs'[s] # reqs[s]
               /\ existingReview(reqs[s].acct, reqs[s].garage) )
             => /\ reqs'[s].pc = "respond"
                /\ reqs'[s].status \in {400, 409}
                /\ store' = store]_vars

RollupOf(g) == [averageRating |-> garages[g].averageRating,
                totalReviews |-> garages[g].totalReviews]

\* C26: whenever the review requests served one at a time have all completed,
\* every garage's totalReviews is the number of its non-deleted reviews and its
\* averageRating their mean rounded to one decimal (0 and 0 when none remain).
RollupMatchesReviews ==
    (\A s \in OneAtATime : reqs[s].pc \in {"idle", "respond"})
    => \A g \in GarageIds :
          garages[g].state = "live" => RollupOf(g) = GarageStats(reviews, g)

RoundedRollupSeen ==
    /\ \A s \in Slots : reqs[s].pc = "idle"
    /\ Len(reviews) = 3
    /\ \E i \in 1..3 : reviews[i].user = "c3" /\ reviews[i].rating = 5
    /\ garages["g1"].totalReviews = 3
    /\ garages["g1"].averageRating = 43

\* C27: once all overlapping review creates, updates and soft-deletes of a
\* garage have completed, no request being in flight in any slot, the garage's
\* totalReviews and averageRating are the count and rounded mean of its
\* non-deleted reviews.
NoStaleRollupAfterOverlap ==
    (\A s \in Slots : reqs[s].pc = "idle")
    => \A g \in GarageIds :
          /\ garages[g].totalReviews = Cardinality(Matched(reviews, g))
          /\ garages[g].averageRating = GarageStats(reviews, g).averageRating

(***************************************************************************)
(* Garages and their bookings.                                             *)
(***************************************************************************)
MaxBookings == 2

BookingStatuses == {"pending", "completed", "cancelled"}

ActiveStatuses == {"pending", "confirmed", "in_progress"}

BookingIds == 1..MaxBookings

\* Booking.findOne({ garage, status: { $in: [...] }, isDeleted: false })
activeBookings(g) ==
    \E i \in 1..Len(bookings) :
        /\ bookings[i].garage = g
        /\ bookings[i].status \in ActiveStatuses
        /\ ~bookings[i].isDeleted

\* Booking.findOne({ garage })
hasBookings(g) == \E i \in 1..Len(bookings) : bookings[i].garage = g

\* POST /garages
createGarage(s, g) ==
    /\ reqs[s].pc = "idle"
    /\ garages[g].state = "none"
    /\ UNCHANGED <<users, now>>
    /\ store' = [store EXCEPT !.garages[g] = LiveGarage]
    /\ reqs' = [reqs EXCEPT ![s] =
           Response("createGarage", NoAcct, NoRef, 201, TRUE, "Garage created successfully")]

\* POST /bookings: the body is stored as sent, the garage it names is not read
createBooking(s, g, st) ==
    /\ reqs[s].pc = "idle"
    /\ Len(bookings) < MaxBookings
    /\ UNCHANGED <<users, now>>
    /\ store' = [store EXCEPT !.bookings =
           Append(@, [garage |-> g, status |-> st, isDeleted |-> FALSE])]
    /\ reqs' = [reqs EXCEPT ![s] =
           Response("createBooking", NoAcct, NoRef, 201, TRUE, "")]

\* PUT /bookings/:id up to booking.save()
updateBooking(s, i, st) ==
    /\ reqs[s].pc = "idle"
    /\ UNCHANGED <<users, now, store>>
    /\ IF i > Len(bookings) \/ bookings[i].isDeleted
       THEN reqs' = [reqs EXCEPT ![s] =
                Response("updateBooking", NoAcct, NoRef, 404, FALSE, "Booking not found")]
       ELSE reqs' = [reqs EXCEPT ![s] =
                [op |-> "updateBooking", pc |-> "saveBooking", id |-> i,
                 snap |-> bookings[i], doc |-> [bookings[i] EXCEPT !.status = st]]]

\* DELETE /bookings/:id up to booking.save()
softDeleteBooking(s, i) ==
    /\ reqs[s].pc = "idle"
    /\ UNCHANGED <<users, now, store>>
    /\ IF i > Len(bookings)
       THEN reqs' = [reqs EXCEPT ![s] =
                Response("softDeleteBooking", NoAcct, NoRef, 404, FALSE, "Booking not found")]
       ELSE reqs' = [reqs EXCEPT ![s] =
                [op |-> "softDeleteBooking", pc |-> "saveBooking", id |-> i,
                 snap |-> bookings[i], doc |-> [bookings[i] EXCEPT !.isDeleted = TRUE]]]

\* booking.save(): the modified paths are written
bookingSave(s) ==
    /\ reqs[s].pc = "saveBooking"
    /\ UNCHANGED <<users, now>>
    /\ LET q == reqs[s] IN
       /\ store' = [store EXCEPT !.bookings[q.id] =
              [p \in DOMAIN @ |-> IF q.doc[p] # q.snap[p] THEN q.doc[p] ELSE @[p]]]
       /\ reqs' = [reqs EXCEPT ![s] =
              Response(q.op, NoAcct, NoRef, 200, TRUE,
                       IF q.op = "softDeleteBooking" THEN "Booking soft deleted" ELSE "")]

\* DELETE /garages/:id: Garage.findById
softDeleteGarage(s, g) ==
    /\ reqs[s].pc = "idle"
    /\ UNCHANGED <<users, now, store>>
    /\ IF garages[g].state # "live"
       THEN reqs' = [reqs EXCEPT ![s] =
                Response("softDeleteGarage", NoAcct, NoRef, 404, FALSE, "Garage not found")]
       ELSE reqs' = [reqs EXCEPT ![s] =
                [op |-> "softDeleteGarage", pc |-> "checkActive", garage |-> g]]

\* the check for active bookings
checkActive(s) ==
    /\ reqs[s].pc = "checkActive"
    /\ UNCHANGED <<users, now, store>>
    /\ IF activeBookings(reqs[s].garage)
       THEN reqs' = [reqs EXCEPT ![s] =
                Response("softDeleteGarage", NoAcct, NoRef, 400, FALSE,
                         "Cannot delete garage with active bookings")]
       ELSE reqs' = [reqs EXCEPT ![s] =
                [op |-> "softDeleteGarage", pc |-> "saveGarage", garage |-> reqs[s].garage]]

\* garage.isDeleted = true; garage.save()
saveGarage(s) ==
    /\ reqs[s].pc = "saveGarage"
    /\ UNCHANGED <<users, now>>
    /\ LET g == reqs[s].garage IN
       IF garages[g].state # "live"
       THEN /\ UNCHANGED store
            /\ reqs' = [reqs EXCEPT ![s] =
                   Response("softDeleteGarage", NoAcct, NoRef, 500, FALSE, "No document found")]
       ELSE /\ store' = [store EXCEPT !.garages[g].isDeleted = TRUE]
            /\ reqs' = [reqs EXCEPT ![s] =
                   [op |-> "softDeleteGarage", pc |-> "cascade", garage |-> g]]

\* Booking.updateMany({ garage }, { isDeleted: true, status: 'cancelled' })
cascade(s) ==
    /\ reqs[s].pc = "cascade"
    /\ UNCHANGED <<users, now>>
    /\ store' = [store EXCEPT !.bookings =
           [i \in DOMAIN @ |->
               IF @[i].garage = reqs[s].garage
               THEN [@[i] EXCEPT !.isDeleted = TRUE, !.status = "cancelled"]
               ELSE @[i]]]
    /\ reqs' = [reqs EXCEPT ![s] =
           Response("softDeleteGarage", NoAcct, NoRef, 200, TRUE,
                    "Garage and associated bookings soft deleted")]

\* DELETE /garages/:id/hard: Garage.findById
hardDeleteGarage(s, g) ==
    /\ reqs[s].pc = "idle"
    /\ UNCHANGED <<users, now, store>>
    /\ IF garages[g].state # "live"
       THEN reqs' = [reqs EXCEPT ![s] =
                Response("hardDeleteGarage", NoAcct, NoRef, 404, FALSE, "Garage not found")]
       ELSE reqs' = [reqs EXCEPT ![s] =
                [op |-> "hardDeleteGarage", pc |-> "checkBookings", garage |-> g]]

\* the check for any booking
checkBookings(s) ==
    /\ reqs[s].pc = "checkBookings"
    /\ UNCHANGED <<users, now, store>>
    /\ IF hasBookings(reqs[s].garage)
       THEN reqs' = [reqs EXCEPT ![s] =
                Response("hardDeleteGarage", NoAcct, NoRef, 400, FALSE,
                         "Cannot permanently delete garage with booking history")]
       ELSE reqs' = [reqs EXCEPT ![s] =
                [op |-> "hardDeleteGarage", pc |-> "deleteGarage", garage |-> reqs[s].garage]]

\* Garage.findByIdAndDelete
deleteGarage(s) ==
    /\ reqs[s].pc = "deleteGarage"
    /\ UNCHANGED <<users, now>>
    /\ store' = [store EXCEPT !.garages[reqs[s].garage] = GoneGarage]
    /\ reqs' = [reqs EXCEPT ![s] =
           Response("hardDeleteGarage", NoAcct, NoRef, 200, TRUE, "Garage permanently deleted")]

NextGarages ==
    \/ \E s \in Slots, g \in GarageIds : createGarage(s, g)
    \/ \E s \in Slots, g \in GarageIds, st \in BookingStatuses : createBooking(s, g, st)
    \/ \E s \in Slots, i \in BookingIds, st \in BookingStatuses : updateBooking(s, i, st)
    \/ \E s \in Slots, i \in BookingIds : softDeleteBooking(s, i)
    \/ \E s \in Slots : bookingSave(s)
    \/ \E s \in Slots, g \in GarageIds : softDeleteGarage(s, g)
    \/ \E s \in Slots : checkActive(s)
    \/ \E s \in Slots : saveGarage(s)
    \/ \E s \in Slots : cascade(s)
    \/ \E s \in Slots, g \in GarageIds : hardDeleteGarage(s, g)
    \/ \E s \in Slots : checkBookings(s)
    \/ \E s \in Slots : deleteGarage(s)
    \/ \E s \in Slots : respond(s)

SpecGarages == Init /\ [][NextGarages]_vars

\* C28: a garage soft delete is refused, with nothing changed, while the
\* garage has a non-deleted booking that is pending, confirmed or in progress;
\* when it goes through, its cascade leaves every completed booking completed.
SoftDeleteSparesCompleted ==
    [][\A s \in Slots :
          /\ ( /\ reqs[s].pc = "checkActive"
               /\ reqs'[s] # reqs[s]
               /\ activeBookings(reqs[s].garage) )
             => /\ reqs'[s].pc = "respond"
                /\ reqs'[s].status = 400
                /\ store' = store
          /\ ( reqs[s].pc = "cascade" /\ reqs'[s] # reqs[s] )
             => \A i \in 1..Len(bookings) :
                   bookings[i].status = "completed" => bookings'[i].status = "completed"]_vars

\* C29: no booking references a garage that has been permanently deleted.
BookedGarageStillExists ==
    \A i \in 1..Len(bookings) : garages[bookings[i].garage].state # "gone"

(***************************************************************************)
(* Login and the lock on repeated failures.                                *)
(***************************************************************************)
MaxAttempts == 5

LockSeconds == 3600

\* userSchema.methods.isLocked on the document d
isLocked(d) == d.lockUntil # Null /\ d.lockUntil > now

\* POST /auth/login up to the password comparison
login(s, a, pwOK) ==
    /\ reqs[s].pc = "idle"
    /\ UNCHANGED <<users, now, store>>
    /\ IF users[a] = Absent
       THEN reqs' = [reqs EXCEPT ![s] =
                Response("login", a, NoRef, 401, FALSE, "Invalid credentials")]
       ELSE IF isLocked(attempts[a])
       THEN reqs' = [reqs EXCEPT ![s] =
                Response("login", a, NoRef, 401, FALSE, "Account is locked until")]
       ELSE reqs' = [reqs EXCEPT ![s] =
                [op |-> "login", pc |-> IF pwOK THEN "loginSave" ELSE "increment",
                 acct |-> a, snap |-> attempts[a]]]

\* user.incrementLoginAttempts() and the answer to a wrong password
incrementLoginAttempts(s) ==
    /\ reqs[s].pc = "increment"
    /\ UNCHANGED <<users, now>>
    /\ LET q == reqs[s]
           d == reqs[s].snap
       IN  /\ store' = [store EXCEPT !.attempts[q.acct] =
                  IF d.lockUntil # Null /\ d.lockUntil < now
                  THEN [loginAttempts |-> 1, lockUntil |-> Null]
                  ELSE [loginAttempts |-> @.loginAttempts + 1,
                        lockUntil |-> IF d.loginAttempts + 1 >= MaxAttempts /\ ~isLocked(d)
                                      THEN now + LockSeconds
                                      ELSE @.lockUntil]]
           /\ reqs' = [reqs EXCEPT ![s] =
                  Response("login", q.acct, NoRef, 401, FALSE, "Invalid credentials")]

\* the answer to the right password without the reset of the counters
loginSaveKeepingCount(s) ==
    /\ reqs[s].pc = "loginSave"
    /\ UNCHANGED <<users, now, store>>
    /\ reqs' = [reqs EXCEPT ![s] =
           Response("login", reqs[s].acct, NoRef, 200, TRUE, "Login successful")]

\* the reset of the counters and the answer to the right password
loginSave(s) ==
    /\ reqs[s].pc = "loginSave"
    /\ UNCHANGED <<users, now>>
    /\ LET q == reqs[s]
           d == reqs[s].snap
       IN  /\ store' = [store EXCEPT !.attempts[q.acct] =
                  IF d.loginAttempts > 0
                  THEN [loginAttempts |-> 0,
                        lockUntil |-> IF d.lockUntil # Null THEN Null ELSE @.lockUntil]
                  ELSE @]
           /\ reqs' = [reqs EXCEPT ![s] =
                  Response("login", q.acct, NoRef, 200, TRUE, "Login successful")]

NextLogin ==
    \/ Tick
    \/ \E s \in Slots, a \in Accounts : register(s, a)
    \/ \E s \in Slots, a \in Accounts, pwOK \in BOOLEAN : login(s, a, pwOK)
    \/ \E s \in Slots : incrementLoginAttempts(s)
    \/ \E s \in Slots : loginSave(s)
    \/ \E s \in Slots : respond(s)

SpecLogin == Init /\ [][NextLogin]_vars

\* C30: a login that fails, for an e-mail without an account as for an
\* existing account given a wrong password, is answered 401 with the one
\* message Invalid credentials, whatever attempts came before it.
FailedLoginsUniform ==
    [][\A s \in Slots :
          /\ \A a \in Accounts :
                ( login(s, a, FALSE) /\ reqs'[s].pc = "respond" )
                => /\ reqs'[s].status = 401
                   /\ reqs'[s].message = "Invalid credentials"
          /\ ( reqs[s].pc = "increment" /\ reqs'[s] # reqs[s] )
             => /\ reqs'[s].status = 401
                /\ reqs'[s].message = "Invalid credentials"]_vars

(***************************************************************************)
(* Retry after a failure.                                                  *)
(***************************************************************************)
\* the account state a failure signal leaves
FailedAwaitingPayment(u) ==
    /\ HasInfo(u)
    /\ u.paymentStatus = "failed"
    /\ u.verificationStatus = "pending_payment"

\* C31: on an account that a failure has left at failed / pending_payment an
\* initiate with a valid plan is passed on with a newly generated reference;
\* when the provider accepts it and the save goes through, the reference is
\* stored with paymentStatus processing and answered 200; a success
\* notification for that stored reference then saves paid / payment_completed.
FailureIsReversible ==
    [][\A s \in Slots, a \in Accounts :
          /\ \A plan \in validPlans, rnd \in Rands :
                ( checkPaymentEligibility(s, a, plan, rnd) /\ FailedAwaitingPayment(users[a]) )
                => /\ reqs'[s].pc = "chapa"
                   /\ reqs'[s].ref = generateTxRef(a, now, rnd)
          /\ ( /\ initializeChapaPayment(s, "success")
               /\ reqs[s].acct = a
               /\ FailedAwaitingPayment(users[a]) )
             => /\ reqs'[s].pc = "save"
                /\ reqs'[s].doc.paymentStatus = "processing"
                /\ reqs'[s].doc.paymentTxRef = reqs[s].ref
          /\ ( /\ userSave(s, FALSE)
               /\ reqs[s].op = "initialize"
               /\ reqs[s].acct = a
               /\ FailedAwaitingPayment(users[a]) )
             => /\ users'[a].paymentStatus = "processing"
                /\ users'[a].paymentTxRef = reqs[s].ref
                /\ reqs'[s].status = 200
                /\ reqs'[s].ref = reqs[s].ref
          /\ \A st \in successStatuses, sig \in Signatures :
                ( /\ HasInfo(users[a])
                  /\ users[a].paymentStatus = "processing"
                  /\ users[a].paymentTxRef # NoRef
                  /\ updatePaymentStatus(s, users[a].paymentTxRef, st, sig, FALSE) )
                => /\ reqs'[s].pc = "save"
                   /\ reqs'[s].acct = a
                   /\ reqs'[s].doc.paymentStatus = "paid"
                   /\ reqs'[s].doc.verificationStatus = "payment_completed"
          /\ ( /\ userSave(s, FALSE)
               /\ reqs[s].op = "callback"
               /\ reqs[s].acct = a
               /\ reqs[s].doc.paymentStatus = "paid"
               /\ users[a].paymentStatus = "processing" )
             => /\ users'[a].paymentStatus = "paid"
                /\ users'[a].verificationStatus = "payment_completed"]_vars

\* a retry in flight: the account still failed with the reference of the
\* failed attempt, the new initiate accepted by the provider and about to save
RetryAcceptedAfterFailure ==
    \E s \in Slots :
        /\ reqs[s].op = "initialize"
        /\ reqs[s].pc = "save"
        /\ FailedAwaitingPayment(users[reqs[s].acct])
        /\ users[reqs[s].acct].paymentTxRef # NoRef
        /\ reqs[s].doc.paymentStatus = "processing"
        /\ reqs[s].doc.paymentTxRef # users[reqs[s].acct].paymentTxRef

\* the clock passes the length of a lock
HourPasses ==
    /\ now <= MaxTime
    /\ now' = now + LockSeconds + 1
    /\ UNCHANGED <<users, reqs, store>>

\* logins served one after the other, with a clock that outlasts a lock
NextLoginSerial ==
    \/ Tick
    \/ HourPasses
    \/ \E s \in OneAtATime, a \in Accounts : register(s, a)
    \/ \E s \in OneAtATime, a \in Accounts, pwOK \in BOOLEAN : login(s, a, pwOK)
    \/ \E s \in OneAtATime : incrementLoginAttempts(s)
    \/ \E s \in OneAtATime : loginSave(s)
    \/ \E s \in OneAtATime : respond(s)

SpecLoginSerial == Init /\ [][NextLoginSerial]_vars

\* C32: with logins served one after the other, the failed attempt that
\* brings the counter to five sets a lock of one hour and no smaller count
\* leaves a lock; while the lock is in force a login, whatever its password,
\* is answered 401 and writes nothing; a login with the right password is
\* answered 200 and leaves the counter at 0 with no lock.
LockoutAfterFiveFailures ==
    [][\A s \in OneAtATime :
          /\ ( reqs[s].pc = "increment" /\ reqs'[s] # reqs[s] )
             => LET before == attempts[reqs[s].acct]
                    after == attempts'[reqs[s].acct]
                IN  /\ reqs'[s].status = 401
                    /\ after.loginAttempts >= MaxAttempts <=> after.lockUntil # Null
                    /\ after.lockUntil # Null => after.lockUntil = now + LockSeconds
                    /\ after.loginAttempts =
                          IF before.lockUntil # Null THEN 1 ELSE before.loginAttempts + 1
          /\ \A a \in Accounts, pwOK \in BOOLEAN :
                ( login(s, a, pwOK) /\ users[a] # Absent /\ isLocked(attempts[a]) )
                => /\ reqs'[s].pc = "respond"
                   /\ reqs'[s].status = 401
                   /\ store' = store
          /\ ( reqs[s].pc = "loginSave" /\ reqs'[s] # reqs[s] )
             => /\ reqs'[s].status = 200
                /\ attempts'[reqs[s].acct] = NoAttempts]_vars

\* a login refused by a lock in force, the counter at five, the lock set
\* after the clock has passed the length of a lock
LockedLoginRefused ==
    \E s \in OneAtATime :
        /\ reqs[s].op = "login"
        /\ reqs[s].pc = "respond"
        /\ reqs[s].message = "Account is locked until"
        /\ attempts[reqs[s].acct].loginAttempts = MaxAttempts
        /\ isLocked(attempts[reqs[s].acct])
        /\ now > LockSeconds

\* C33: a callback whose signature is missing or does not match is not
\* carried through to a write that changes an account's paymentStatus or
\* verificationStatus.
UnsignedCallbackChangesNothing ==
    [][\A s \in Slots, st \in WebhookStatuses, f \in BOOLEAN :
          \A ref \in RequestRefs, sig \in {"missing", "invalid"} :
              ( updatePaymentStatus(s, ref, st, sig, f) /\ reqs'[s].pc = "save" )
              => /\ reqs'[s].doc.paymentStatus = reqs'[s].snap.paymentStatus
                 /\ reqs'[s].doc.verificationStatus = reqs'[s].snap.verificationStatus]_vars

(***************************************************************************)
(* The verify poll with a second authenticated user.                       *)
(***************************************************************************)
Callers == Accounts \cup {"u2"}

InitCallers ==
    /\ users = [a \in Callers |-> Absent]
    /\ reqs = [s \in Slots |-> Idle]
    /\ now = 0
    /\ InitOtherData

\* GET /payments/verify/:tx_ref: protect admits any user with a token, the
\* handler never reads req.user
verifyRoute(s, caller, ref, outcome) ==
    /\ users[caller] # Absent
    /\ verifyChapaPayment(s, ref, outcome)

NextCallers ==
    \/ \E s \in OneAtATime, a \in Callers, g \in BOOLEAN : registerGarageOwner(s, a, 0, g)
    \/ \E s \in OneAtATime, a \in Callers : register(s, a)
    \/ \E s \in OneAtATime, a \in Callers, plan \in validPlans, rnd \in Rands :
          checkPaymentEligibility(s, a, plan, rnd)
    \/ \E s \in OneAtATime, o \in InitOutcomes : initializeChapaPayment(s, o)
    \/ \E s \in OneAtATime, caller \in Callers, ref \in RequestRefs \ {NoRef},
          o \in ProviderOutcomes : verifyRoute(s, caller, ref, o)
    \/ \E s \in OneAtATime, f \in BOOLEAN : userSave(s, f)
    \/ \E s \in OneAtATime : respond(s)

SpecCallers == InitCallers /\ [][NextCallers]_vars

\* C34: a verify call carries a write only to the caller's own account: when
\* the reference it names is stored on another account, that account's
\* payment and verification state are not rewritten.
VerifyTouchesOnlyCaller ==
    [][\A s \in Slots, caller \in Callers, o \in ProviderOutcomes :
          \A ref \in RequestRefs \ {NoRef} :
              ( verifyRoute(s, caller, ref, o) /\ reqs'[s].pc = "save" )
              => \/ reqs'[s].acct = caller
                 \/ /\ reqs'[s].doc.paymentStatus = reqs'[s].snap.paymentStatus
                    /\ reqs'[s].doc.verificationStatus = reqs'[s].snap.verificationStatus]_vars

(***************************************************************************)
(* Overlapping initiates of one account.                                   *)
(***************************************************************************)
NextInitiates ==
    \/ Tick
    \/ \E s \in Slots, a \in Accounts, g \in BOOLEAN : registerGarageOwner(s, a, 0, g)
    \/ \E s \in Slots, a \in Accounts, plan \in PlanInputs, rnd \in Rands :
          checkPaymentEligibility(s, a, plan, rnd)
    \/ \E s \in Slots, o \in InitOutcomes : initializeChapaPayment(s, o)
    \/ \E s \in Slots, f \in BOOLEAN : userSave(s, f)
    \/ \E s \in Slots : respond(s)

SpecInitiates == Init /\ [][NextInitiates]_vars

\* C35: while an account is processing, an initiate that reaches the
\* eligibility check is answered 400, and no initiate stores another
\* reference on the account or is answered with a checkout session.
OneAttemptInFlight ==
    [][\A s \in Slots :
          /\ \A a \in Accounts, plan \in PlanInputs, rnd \in Rands :
                ( /\ checkPaymentEligibility(s, a, plan, rnd)
                  /\ HasInfo(users[a])
                  /\ users[a].paymentStatus = "processing" )
                => /\ reqs'[s].pc = "respond"
                   /\ reqs'[s].status = 400
          /\ ( /\ reqs[s].op = "initialize"
               /\ reqs[s].pc = "save"
               /\ reqs'[s] # reqs[s]
               /\ users[reqs[s].acct].paymentStatus = "processing" )
             => /\ users'[reqs[s].acct].paymentTxRef = users[reqs[s].acct].paymentTxRef
                /\ reqs'[s].status # 200]_vars

(***************************************************************************)
(* Soft delete of a garage followed by its restore.                        *)
(***************************************************************************)
\* PUT /garages/:id/restore: Garage.findById
restoreGarage(s, g) ==
    /\ reqs[s].pc = "idle"
    /\ UNCHANGED <<users, now, store>>
    /\ IF garages[g].state # "live"
       THEN reqs' = [reqs EXCEPT ![s] =
                Response("restoreGarage", NoAcct, NoRef, 404, FALSE, "Garage not found")]
       ELSE reqs' = [reqs EXCEPT ![s] =
                [op |-> "restoreGarage", pc |-> "saveRestored", garage |-> g]]

\* garage.isDeleted = false; garage.save()
saveRestored(s) ==
    /\ reqs[s].pc = "saveRestored"
    /\ UNCHANGED <<users, now>>
    /\ LET g == reqs[s].garage IN
       IF garages[g].state # "live"
       THEN /\ UNCHANGED store
            /\ reqs' = [reqs EXCEPT ![s] =
                   Response("restoreGarage", NoAcct, NoRef, 500, FALSE, "No document found")]
       ELSE /\ store' = [store EXCEPT !.garages[g].isDeleted = FALSE]
            /\ reqs' = [reqs EXCEPT ![s] =
                   [op |-> "restoreGarage", pc |-> "restoreBookings", garage |-> g]]

\* Booking.updateMany({ garage, isDeleted: true, deletedAt: { $exists: true } },
\*                    { isDeleted: false, deletedAt: null, status: 'pending' })
restoreBookings(s) ==
    /\ reqs[s].pc = "restoreBookings"
    /\ UNCHANGED <<users, now>>
    /\ store' = [store EXCEPT !.bookings =
           [i \in DOMAIN @ |->
               IF @[i].garage = reqs[s].garage /\ @[i].isDeleted
               THEN [@[i] EXCEPT !.isDeleted = FALSE, !.status = "pending"]
               ELSE @[i]]]
    /\ reqs' = [reqs EXCEPT ![s] =
           Response("restoreGarage", NoAcct, NoRef, 200, TRUE,
                    "Garage and associated bookings restored")]

\* the bookings a garage can have collected before it is soft-deleted
BookingLists ==
    UNION {[1..n -> [garage : GarageIds, status : BookingStatuses, isDeleted : BOOLEAN]] :
              n \in 0..MaxBookings}

\* a garage with bookings; original keeps the bookings as they are at the start
InitRestore ==
    /\ users = [a \in Accounts |-> Absent]
    /\ reqs = [s \in Slots |-> Idle]
    /\ now = 0
    /\ \E b \in BookingLists :
          store = [garages |-> [g \in GarageIds |-> LiveGarage],
                   bookings |-> b,
                   reviews |-> <<>>,
                   attempts |-> [a \in Accounts |-> NoAttempts],
                   original |-> b]

NextRestore ==
    \/ \E s \in OneAtATime, g \in GarageIds : softDeleteGarage(s, g)
    \/ \E s \in OneAtATime : checkActive(s)
    \/ \E s \in OneAtATime : saveGarage(s)
    \/ \E s \in OneAtATime : cascade(s)
    \/ \E s \in OneAtATime, g \in GarageIds : restoreGarage(s, g)
    \/ \E s \in OneAtATime : saveRestored(s)
    \/ \E s \in OneAtATime : restoreBookings(s)
    \/ \E s \in OneAtATime : respond(s)

SpecRestore == InitRestore /\ [][NextRestore]_vars

\* the bookings b after the cascade of a soft delete of garage g
Cascaded(b, g) ==
    [i \in DOMAIN b |->
        IF b[i].garage = g
        THEN [b[i] EXCEPT !.isDeleted = TRUE, !.status = "cancelled"]
        ELSE b[i]]

\* C36: when a restore of a garage follows its soft delete, the bookings being
\* those the cascade left and no longer as they were, the restore gives every
\* booking back the status and the isDeleted flag it had before the soft delete.
RestoreUndoesSoftDelete ==
    [][\A s \in Slots :
          ( /\ reqs[s].pc = "restoreBookings"
            /\ reqs'[s] # reqs[s]
            /\ bookings # store.original
            /\ bookings = Cascaded(store.original, reqs[s].garage) )
          => bookings' = store.original]_vars

\* C37: a review create succeeds exactly when the customer has no non-deleted
\* review of the garage: the check refuses it when there is one, and when there
\* is none, as after the soft delete of an earlier review, the review is stored.
CreateSucceedsWithoutLiveReview ==
    [][\A s \in OneAtATime :
          /\ \A c \in Customers, g \in GarageIds, r \in Ratings :
                createReview(s, c, g, r)
                => ( reqs'[s].pc = "respond" <=> existingReview(c, g) )
          /\ ( /\ reqs[s].pc = "insert"
               /\ reqs'[s] # reqs[s]
               /\ ~existingReview(reqs[s].acct, reqs[s].garage) )
             => /\ Len(reviews') = Len(reviews) + 1
                /\ reqs'[s].pc = "aggregate"]_vars

(***************************************************************************)
(* Who may change a garage and its services.                               *)
(***************************************************************************)
MaxServices == 1

GarageNames == {"n0", "n1"}

Prices == {1, 2}

\* the users with role admin among the authenticated users
Admins == {"c3"}

\* a garage created by owner o: Garage.create({ ...req.body, owner: req.user._id })
OwnedGarage(o) ==
    [state |-> "live", isDeleted |-> FALSE, averageRating |-> 0, totalReviews |-> 0,
     owner |-> o, name |-> "n0", services |-> <<>>]

\* the garage of c1 with a completed booking
InitOwners ==
    /\ users = [a \in Accounts |-> Absent]
    /\ reqs = [s \in Slots |-> Idle]
    /\ now = 0
    /\ store = [garages |-> [g \in GarageIds |-> OwnedGarage("c1")],
                bookings |-> <<[garage |-> "g1", status |-> "completed", isDeleted |-> FALSE]>>,
                reviews |-> <<>>,
                attempts |-> [a \in Accounts |-> NoAttempts]]

\* PUT /garages/:id
updateGarage(s, caller, g, name) ==
    /\ reqs[s].pc = "idle"
    /\ UNCHANGED <<users, now>>
    /\ IF garages[g].state # "live" \/ garages[g].isDeleted
       THEN /\ UNCHANGED store
            /\ reqs' = [reqs EXCEPT ![s] =
                   Response("updateGarage", caller, NoRef, 404, FALSE, "Garage not found")]
       ELSE IF garages[g].owner # caller /\ caller \notin Admins
       THEN /\ UNCHANGED store
            /\ reqs' = [reqs EXCEPT ![s] =
                   Response("updateGarage", caller, NoRef, 403, FALSE,
                            "Not authorized to update this garage")]
       ELSE /\ store' = [store EXCEPT !.garages[g].name = name]
            /\ reqs' = [reqs EXCEPT ![s] =
                   Response("updateGarage", caller, NoRef, 200, TRUE, "Garage updated successfully")]

\* POST /garages/:id/services
addService(s, caller, g, price) ==
    /\ reqs[s].pc = "idle"
    /\ UNCHANGED <<users, now>>
    /\ IF garages[g].state # "live"
       THEN /\ UNCHANGED store
            /\ reqs' = [reqs EXCEPT ![s] =
                   Response("addService", caller, NoRef, 404, FALSE, "Garage not found")]
       ELSE /\ Len(garages[g].services) < MaxServices
            /\ store' = [store EXCEPT !.garages[g].services =
                   Append(@, [price |-> price, isActive |-> TRUE])]
            /\ reqs' = [reqs EXCEPT ![s] =
                   Response("addService", caller, NoRef, 200, TRUE, "Service added successfully")]

\* PUT /garages/:id/services/:serviceId
updateService(s, caller, g, i, price) ==
    /\ reqs[s].pc = "idle"
    /\ UNCHANGED <<users, now>>
    /\ IF garages[g].state # "live"
       THEN /\ UNCHANGED store
            /\ reqs' = [reqs EXCEPT ![s] =
                   Response("updateService", caller, NoRef, 404, FALSE, "Garage not found")]
       ELSE IF i > Len(garages[g].services)
       THEN /\ UNCHANGED store
            /\ reqs' = [reqs EXCEPT ![s] =
                   Response("updateService", caller, NoRef, 404, FALSE, "Service not found")]
       ELSE /\ store' = [store EXCEPT !.garages[g].services[i].price = price]
            /\ reqs' = [reqs EXCEPT ![s] =
                   Response("updateService", caller, NoRef, 200, TRUE, "Service updated successfully")]

\* DELETE /garages/:id/services/:serviceId
deleteService(s, caller, g, i) ==
    /\ reqs[s].pc = "idle"
    /\ UNCHANGED <<users, now>>
    /\ IF garages[g].state # "live"
       THEN /\ UNCHANGED store
            /\ reqs' = [reqs EXCEPT ![s] =
                   Response("deleteService", caller, NoRef, 404, FALSE, "Garage not found")]
       ELSE IF i > Len(garages[g].services)
       THEN /\ UNCHANGED store
            /\ reqs' = [reqs EXCEPT ![s] =
                   Response("deleteService", caller, NoRef, 404, FALSE, "Service not found")]
       ELSE /\ store' = [store EXCEPT !.garages[g].services[i].isActive = FALSE]
            /\ reqs' = [reqs EXCEPT ![s] =
                   Response("deleteService", caller, NoRef, 200, TRUE, "Service deleted successfully")]

\* DELETE /garages/:id behind router.use(protect): the handler never reads req.user
softDeleteGarageRoute(s, caller, g) ==
    /\ caller \in Customers
    /\ softDeleteGarage(s, g)

NextOwners ==
    \/ \E s \in OneAtATime, c \in Customers, g \in GarageIds, n \in GarageNames :
          updateGarage(s, c, g, n)
    \/ \E s \in OneAtATime, c \in Customers, g \in GarageIds, p \in Prices :
          addService(s, c, g, p)
    \/ \E s \in OneAtATime, c \in Customers, g \in GarageIds, i \in 1..MaxServices, p \in Prices :
          updateService(s, c, g, i, p)
    \/ \E s \in OneAtATime, c \in Customers, g \in GarageIds, i \in 1..MaxServices :
          deleteService(s, c, g, i)
    \/ \E s \in OneAtATime, c \in Customers, g \in GarageIds : softDeleteGarageRoute(s, c, g)
    \/ \E s \in OneAtATime : checkActive(s)
    \/ \E s \in OneAtATime : saveGarage(s)
    \/ \E s \in OneAtATime : cascade(s)
    \/ \E s \in OneAtATime : respond(s)

SpecOwners == InitOwners /\ [][NextOwners]_vars

\* the request in slot s is refused and has written nothing
Refused(s) ==
    /\ reqs'[s].pc = "respond"
    /\ reqs'[s].status \in {401, 403}
    /\ store' = store

\* C38: a request on a garage by an authenticated user who is neither its
\* owner nor an admin is refused with nothing written, for the soft delete and
\* the three service handlers as for updateGarage.
OnlyOwnerOrAdminChangesGarage ==
    [][\A s \in OneAtATime, c \in Customers, g \in GarageIds :
          ( /\ garages[g].state = "live"
            /\ ~garages[g].isDeleted
            /\ garages[g].owner # c
            /\ c \notin Admins )
          => /\ \A n \in GarageNames : updateGarage(s, c, g, n) => Refused(s)
             /\ softDeleteGarageRoute(s, c, g) => Refused(s)
             /\ \A p \in Prices : addService(s, c, g, p) => Refused(s)
             /\ \A i \in 1..MaxServices, p \in Prices :
                   updateService(s, c, g, i, p) => Refused(s)
             /\ \A i \in 1..MaxServices : deleteService(s, c, g, i) => Refused(s)]_vars
====
